---- MODULE Spec2Model ----
(***************************************************************************)
(* A model of derive-into: the derive macro `Convert` that generates       *)
(* From / TryFrom implementations between similar structs and enums.       *)
(*                                                                         *)
(* Two layers are modelled:                                                *)
(*   - generation time: the directive normaliser                           *)
(*     (extract_convertible_fields), the type-shape resolver               *)
(*     (decide_field_method_for_type, decide_field_method) and the         *)
(*     assemblers (implement_struct_conversion, implement_enum_conversion);*)
(*   - run time: the behaviour of the code those functions emit            *)
(*     (infallible_expr, fallible_expr, field_*_conversion), executed      *)
(*     statement by statement on a source value.                           *)
(***************************************************************************)
EXTENDS Integers, Sequences, FiniteSets, TLC

(***************************************************************************)
(* Bounds of the model.                                                    *)
(***************************************************************************)
\* plain (leaf) values are 0..MaxLeaf
MaxLeaf == 1
\* a source value has at most this many nodes (leaves, options, containers)
MaxSize == 4
\* a field carries at most this many direction-scoped entries
MaxEntries == 2
\* the nesting depth of the declared types the resolver is run on
MaxDepth == 3

Leaf == 0..MaxLeaf

(***************************************************************************)
(* Option, Result and run-time values.                                     *)
(*   <<"L", n>>       a plain value                                        *)
(*   <<"None">>, <<"Some", v>>                                             *)
(*   <<"Vec", s>>     s a sequence of values                               *)
(*   <<"Map", f>>     f a function from plain values (keys) to values      *)
(***************************************************************************)
None == <<"None">>
Some(v) == <<"Some", v>>
IsSome(o) == o[1] = "Some"
Ok(v) == <<"Ok", v>>
Err(e) == <<"Err", e>>
Panic(m) == <<"Panic", m>>
IsOk(r) == r[1] = "Ok"
IsErr(r) == r[1] = "Err"
IsPanic(r) == r[1] = "Panic"
L(n) == <<"L", n>>
Vec(s) == <<"Vec", s>>
Map(f) == <<"Map", f>>
EmptyMap == [k \in {} |-> None]
KeyVals == {L(n) : n \in Leaf}

(***************************************************************************)
(* Declared types (syn::Type): a path of segments, the last one carrying   *)
(* the angle-bracketed generic arguments.                                  *)
(***************************************************************************)
Ty(name) == [path |-> <<name>>, args |-> <<>>]
Gen(name, args) == [path |-> <<name>>, args |-> args]
Qualified(path, args) == [path |-> path, args |-> args]

\* a peel that looks at the last segment of a path of any length
extract_inner_type_any_path(ty, surrounding_type) ==
    IF /\ ty.path[Len(ty.path)] = surrounding_type
       /\ Len(ty.args) >= 1
    THEN Some(ty.args[1])
    ELSE None

\* util.rs: extract_inner_type
extract_inner_type(ty, surrounding_type) ==
    IF /\ Len(ty.path) = 1
       /\ ty.path[1] = surrounding_type
       /\ Len(ty.args) >= 1
    THEN Some(ty.args[1])
    ELSE None

\* util.rs: is_surrounding_type
is_surrounding_type(ty, surrounding_type) ==
    IsSome(extract_inner_type(ty, surrounding_type))

\* util.rs: extract_hashmap_inner_types
extract_hashmap_inner_types(ty) ==
    IF /\ Len(ty.path) = 1
       /\ ty.path[1] = "HashMap"
       /\ Len(ty.args) >= 2
    THEN Some(<<ty.args[1], ty.args[2]>>)
    ELSE None

(***************************************************************************)
(* FieldConversionMethod: the strategy tree.                               *)
(***************************************************************************)
Plain == <<"Plain">>
OptionM(inner) == <<"Option", inner>>
IteratorM(inner) == <<"Iterator", inner>>
HashMapM(k, v) == <<"HashMap", k, v>>
UnwrapOption(inner) == <<"UnwrapOption", inner>>
UnwrapOrDefault(inner) == <<"UnwrapOrDefault", inner>>
SomeOption(inner) == <<"SomeOption", inner>>

\* a resolver that looks at the outermost container only
decide_field_method_for_type_shallow(ty) ==
    IF IsSome(extract_inner_type(ty, "Option")) THEN OptionM(Plain)
    ELSE IF IsSome(extract_inner_type(ty, "Vec")) THEN IteratorM(Plain)
    ELSE IF IsSome(extract_hashmap_inner_types(ty)) THEN HashMapM(Plain, Plain)
    ELSE Plain

\* conversion_field.rs: decide_field_method_for_type
RECURSIVE decide_field_method_for_type(_)
decide_field_method_for_type(ty) ==
    IF IsSome(extract_inner_type(ty, "Option"))
    THEN OptionM(decide_field_method_for_type(extract_inner_type(ty, "Option")[2]))
    ELSE IF IsSome(extract_inner_type(ty, "Vec"))
    THEN IteratorM(decide_field_method_for_type(extract_inner_type(ty, "Vec")[2]))
    ELSE IF IsSome(extract_hashmap_inner_types(ty))
    THEN HashMapM(
            decide_field_method_for_type(extract_hashmap_inner_types(ty)[2][1]),
            decide_field_method_for_type(extract_hashmap_inner_types(ty)[2][2]))
    ELSE Plain

\* a resolver without the test for both flags: unwrap wins
decide_field_method_unwrap_wins(ty, is_from, unwrap, unwrap_or_default) ==
    LET is_option == is_surrounding_type(ty, "Option")
        wrap(inner) == IF unwrap THEN UnwrapOption(inner) ELSE UnwrapOrDefault(inner)
    IN  IF unwrap \/ unwrap_or_default
        THEN CASE is_option /\ ~is_from ->
                    Ok(wrap(decide_field_method_for_type(extract_inner_type(ty, "Option")[2])))
               [] is_option /\ is_from ->
                    Ok(SomeOption(decide_field_method_for_type(extract_inner_type(ty, "Option")[2])))
               [] ~is_option /\ is_from ->
                    Ok(wrap(decide_field_method_for_type(ty)))
               [] ~is_option /\ ~is_from ->
                    Err([msg |-> "Cannot unwrap non-Option field", span |-> "ty"])
        ELSE Ok(decide_field_method_for_type(ty))

\* a resolver that takes no notice of the flags
decide_field_method_ignoring_flags(ty, is_from, unwrap, unwrap_or_default) ==
    Ok(decide_field_method_for_type(ty))

\* conversion_field.rs: decide_field_method
decide_field_method(ty, is_from, unwrap, unwrap_or_default) ==
    LET is_option == is_surrounding_type(ty, "Option")
        wrap(inner) == IF unwrap THEN UnwrapOption(inner) ELSE UnwrapOrDefault(inner)
    IN  IF unwrap /\ unwrap_or_default
        THEN Err([msg |-> "Cannot use both unwrap and unwrap_or_default", span |-> "ty"])
        ELSE IF unwrap \/ unwrap_or_default
        THEN CASE is_option /\ ~is_from ->
                    Ok(wrap(decide_field_method_for_type(extract_inner_type(ty, "Option")[2])))
               [] is_option /\ is_from ->
                    Ok(SomeOption(decide_field_method_for_type(extract_inner_type(ty, "Option")[2])))
               [] ~is_option /\ is_from ->
                    Ok(wrap(decide_field_method_for_type(ty)))
               [] ~is_option /\ ~is_from ->
                    Err([msg |-> "Cannot unwrap non-Option field", span |-> "ty"])
        ELSE Ok(decide_field_method_for_type(ty))

(***************************************************************************)
(* ConversionMethod and ConversionMeta (conversion_meta.rs).               *)
(***************************************************************************)
ConversionMethod == {"Into", "TryInto", "From", "TryFrom"}

\* ConversionMethod::is_from
is_from(method) == method \in {"From", "TryFrom"}

\* ConversionMethod::is_falliable
is_falliable(method) == method \in {"TryInto", "TryFrom"}

\* ConversionMeta::other_type
other_type(meta) ==
    IF is_from(meta.method) THEN meta.source_name ELSE meta.target_name

(***************************************************************************)
(* Field directives (conversion_field.rs).  ConvertFieldAttr is one        *)
(* direction-scoped entry, ConvertField the parsed attributes of a field.  *)
(* darling gives an absent flag the value false and cannot tell it from an *)
(* explicit false.                                                         *)
(***************************************************************************)
ConvertFieldAttr(path, skip, unwrap, unwrap_or_default, default, rename, with_func) ==
    [path |-> path, skip |-> skip, unwrap |-> unwrap,
     unwrap_or_default |-> unwrap_or_default, default |-> default,
     rename |-> rename, with_func |-> with_func]

ConvertField(ident, ty, skip, rename, default, unwrap, unwrap_or_default, with_func, from, try_from, into, try_into) ==
    [ident |-> ident, ty |-> ty, skip |-> skip, rename |-> rename, default |-> default,
     unwrap |-> unwrap, unwrap_or_default |-> unwrap_or_default, with_func |-> with_func,
     from |-> from, try_from |-> try_from, into |-> into, try_into |-> try_into]

\* FieldIdentifier
Named(ident) == <<"Named", ident>>
Unnamed(index) == <<"Unnamed", index>>

\* the entries of every direction, whatever the plan's direction
scoped_attrs_any_direction(convert_field, conversion_type) ==
    convert_field.from \o convert_field.try_from \o convert_field.into \o convert_field.try_into

\* extract_convertible_fields: the entries of the plan's direction
scoped_attrs(convert_field, conversion_type) ==
    CASE conversion_type = "From" -> convert_field.from
      [] conversion_type = "TryFrom" -> convert_field.try_from
      [] conversion_type = "Into" -> convert_field.into
      [] conversion_type = "TryInto" -> convert_field.try_into

\* a filter that keeps only the entries written for this very path
path_matches_exact(attrs, other) ==
    IsSome(attrs.path) /\ attrs.path[2] = other

\* extract_convertible_fields: the filter on the entries' path
path_matches(attrs, other) ==
    ~(IsSome(attrs.path) /\ attrs.path[2] # other)

matching_attrs(convert_field, conversion_type, other) ==
    SelectSeq(scoped_attrs(convert_field, conversion_type),
              LAMBDA attrs : path_matches(attrs, other))

\* extract_convertible_fields: the effective directives of one field, given the
\* matching entry (None when no entry matches)
effective_unwrap(convert_field, field_conv_attrs) ==
    IF IsSome(field_conv_attrs) THEN field_conv_attrs[2].unwrap ELSE convert_field.unwrap

effective_unwrap_or_default(convert_field, field_conv_attrs) ==
    IF IsSome(field_conv_attrs) THEN field_conv_attrs[2].unwrap_or_default
    ELSE convert_field.unwrap_or_default

effective_default(convert_field, field_conv_attrs) ==
    IF IsSome(field_conv_attrs) THEN field_conv_attrs[2].default ELSE convert_field.default

\* a skip resolved as the other flags are: the entry's when an entry matches
effective_skip_entry_first(convert_field, field_conv_attrs) ==
    IF IsSome(field_conv_attrs) THEN field_conv_attrs[2].skip ELSE convert_field.skip

effective_skip(convert_field, field_conv_attrs) ==
    convert_field.skip \/ (IsSome(field_conv_attrs) /\ field_conv_attrs[2].skip)

effective_rename(convert_field, field_conv_attrs) ==
    IF IsSome(field_conv_attrs) /\ IsSome(field_conv_attrs[2].rename)
    THEN field_conv_attrs[2].rename
    ELSE convert_field.rename

\* a custom function taken from the unscoped directive alone
effective_with_func_unscoped(convert_field, field_conv_attrs) ==
    convert_field.with_func

effective_with_func(convert_field, field_conv_attrs) ==
    IF IsSome(field_conv_attrs) /\ IsSome(field_conv_attrs[2].with_func)
    THEN field_conv_attrs[2].with_func
    ELSE convert_field.with_func

\* a push that keeps the names as they are in every direction
push_field_unswapped(i, from, source_name, target_name, method, default, conversion_func) ==
    IF IsErr(method) THEN Err([msg |-> method[2].msg, span |-> "ty", field |-> i])
    ELSE Ok([source_name |-> source_name,
             span |-> i,
             skip |-> FALSE,
             default |-> default,
             method |-> method[2],
             target_name |-> target_name,
             conversion_func |-> conversion_func])

\* extract_convertible_fields: result.push(ConvertibleField { .. }), after the
\* `?` on decide_field_method and the swap of the names in a From direction
push_field(i, from, source_name, target_name, method, default, conversion_func) ==
    IF IsErr(method) THEN Err([msg |-> method[2].msg, span |-> "ty", field |-> i])
    ELSE Ok([source_name |-> IF from THEN target_name ELSE source_name,
             span |-> i,
             skip |-> FALSE,
             default |-> default,
             method |-> method[2],
             target_name |-> IF from THEN source_name ELSE target_name,
             conversion_func |-> conversion_func])

\* extract_convertible_fields: the target name of a field: the effective
\* rename, else the field's own name
target_name_of(rename, source_name) ==
    IF IsSome(rename) THEN Named(rename[2]) ELSE source_name

\* extract_convertible_fields: the loop body once the matching entry is known.
\* <<"Skip">>, Ok(ConvertibleField) or Err(error)
convert_with_attrs(convert_field, i, conversion_type, source_name, field_conv_attrs) ==
    IF effective_skip(convert_field, field_conv_attrs) THEN <<"Skip">>
    ELSE push_field(i, is_from(conversion_type), source_name,
            target_name_of(effective_rename(convert_field, field_conv_attrs), source_name),
            decide_field_method(convert_field.ty, is_from(conversion_type),
                                effective_unwrap(convert_field, field_conv_attrs),
                                effective_unwrap_or_default(convert_field, field_conv_attrs)),
            effective_default(convert_field, field_conv_attrs),
            effective_with_func(convert_field, field_conv_attrs))

\* extract_convertible_fields: the match on the number of matching entries
select_attrs(convert_field, i, conversion_type, matching) ==
    IF Len(matching) > 1
    THEN Err([msg |-> "Expected exactly one conversion attribute for field",
              span |-> "field", field |-> i])
    ELSE convert_with_attrs(convert_field, i, conversion_type,
            IF IsSome(convert_field.ident) THEN Named(convert_field.ident[2]) ELSE Unnamed(i),
            IF Len(matching) = 0 THEN None ELSE Some(matching[1]))

\* extract_convertible_fields: the body of the loop for field i (0-based)
convert_one_field(convert_field, i, conversion_type, other) ==
    select_attrs(convert_field, i, conversion_type,
                 matching_attrs(convert_field, conversion_type, other))

\* extract_convertible_fields: result.sort_by (a stable sort: the fields with a
\* conversion function first)
sort_by_conversion_func(result) ==
    SelectSeq(result, LAMBDA f : IsSome(f.conversion_func))
      \o SelectSeq(result, LAMBDA f : ~IsSome(f.conversion_func))

\* extract_convertible_fields: the loop over the fields from index i on, with
\* `result` the fields pushed so far; the first error ends it
RECURSIVE convert_fields_from(_, _, _, _, _)
after_field(fields, i, result, conversion_type, other, one) ==
    IF IsErr(one) THEN one
    ELSE convert_fields_from(fields, i + 1,
            IF IsOk(one) THEN Append(result, one[2]) ELSE result,
            conversion_type, other)

convert_fields_from(fields, i, result, conversion_type, other) ==
    IF i > Len(fields) THEN Ok(result)
    ELSE after_field(fields, i, result, conversion_type, other,
                     convert_one_field(fields[i], i - 1, conversion_type, other))

\* extract_convertible_fields: the sort and the return
sorted_result(result) ==
    IF IsErr(result) THEN result ELSE Ok(sort_by_conversion_func(result[2]))

\* conversion_field.rs: extract_convertible_fields
extract_convertible_fields(fields, conversion_type, other) ==
    sorted_result(convert_fields_from(fields, 1, <<>>, conversion_type, other))

(***************************************************************************)
(* State.                                                                  *)
(***************************************************************************)
VARIABLES
    decl,     \* the declaration carrying #[derive(Convert)]: ident, attrs, kind, named,
              \* fields / variants
    plan,     \* None until the macro has run; then Ok(routines), Err(error) or Panic(text)
    cur,      \* the routine that is running, an index of the routines; 0 when none is
    env,      \* what the user's code does: into, try_into, validate, with_func, hash order
    source,   \* the argument of the generated routine
    scope,    \* the places the field expressions read: source.<name>, or the arm's bindings
    pc,       \* "derive", "ready", "validate", "dispatch", "fields", "done", "rejected"
    idx,      \* the field expression evaluated next
    built,    \* the target fields evaluated so far, in emission order
    result,   \* None until the routine returns
    log       \* the calls the routine has made, in order

vars == <<decl, plan, cur, env, source, scope, pc, idx, built, result, log>>

(***************************************************************************)
(* Text.  stringify! and format! produce strings; Display of a String is   *)
(* the string, Debug of a String is the string in double quotes.           *)
(***************************************************************************)
Digit(n) == <<"0", "1", "2", "3", "4", "5", "6", "7", "8", "9">>[n + 1]

\* FieldIdentifier::to_tokens
to_tokens(id) == IF id[1] = "Named" THEN id[2] ELSE Digit(id[2])

\* FieldIdentifier::as_named
as_named(id) == IF id[1] = "Named" THEN id[2] ELSE "field" \o Digit(id[2])

\* the user's error values are Strings; Display and Debug of a String
Display(e) == e
Debug(e) == "\"" \o e \o "\""

\* the error the user's TryFrom returns for the plain value n
LeafError(n) == "bad" \o Digit(n)

(***************************************************************************)
(* The value of the expression infallible_expr emits, for `value` bound to *)
(* a run-time value.  Panic(m) when evaluating it panics.                  *)
(***************************************************************************)
\* the keys of the map f in the order the HashMap iterates them
IterKeys(f) == SelectSeq(env.hash_order, LAMBDA k : k \in DOMAIN f)

\* a HashMap that keeps the entry it has when the key is inserted again
InsertIfAbsent(f, k, v) == [x \in (DOMAIN f) \cup {k} |-> IF x \in DOMAIN f THEN f[x] ELSE v]

\* HashMap::insert
Insert(f, k, v) == [x \in (DOMAIN f) \cup {k} |-> IF x = k THEN v ELSE f[x]]

\* Default::default() of the type a strategy reads
RECURSIVE DefaultOf(_)
DefaultOf(method) ==
    CASE method[1] = "Plain" -> L(0)
      [] method[1] = "Iterator" -> Vec(<<>>)
      [] method[1] = "HashMap" -> Map(EmptyMap)
      [] method[1] = "SomeOption" -> DefaultOf(method[2])
      [] OTHER -> None

\* the first index of s whose element satisfies Bad, 0 when there is none
FirstIndex(s, Bad(_)) ==
    IF \E i \in 1..Len(s) : Bad(s[i])
    THEN CHOOSE i \in 1..Len(s) : Bad(s[i]) /\ \A j \in 1..(i - 1) : ~Bad(s[j])
    ELSE 0

\* FromIterator for HashMap: the pairs are inserted in order
RECURSIVE CollectMap(_, _, _)
CollectMap(pairs, i, acc) ==
    IF i > Len(pairs) THEN acc
    ELSE CollectMap(pairs, i + 1, Insert(acc, pairs[i][1], pairs[i][2]))

\* Some(r), unless evaluating r panicked
some_of(r) == IF IsPanic(r) THEN r ELSE Some(r)

\* collect() into a Vec: the first panic of the closure ends it
collect_vec(rs) ==
    IF FirstIndex(rs, IsPanic) # 0 THEN rs[FirstIndex(rs, IsPanic)] ELSE Vec(rs)

\* which of a pair panicked
panic_of(pair) == IF IsPanic(pair[1]) THEN pair[1] ELSE pair[2]

\* collect() into a HashMap: the first panic of the closure ends it
collect_map(pairs) ==
    IF FirstIndex(pairs, LAMBDA p : IsPanic(p[1]) \/ IsPanic(p[2])) # 0
    THEN panic_of(pairs[FirstIndex(pairs, LAMBDA p : IsPanic(p[1]) \/ IsPanic(p[2]))])
    ELSE Map(CollectMap(pairs, 1, EmptyMap))

RECURSIVE infallible_expr(_, _)

\* Plain: #value.into()
infallible_plain(value) == L(env.into[value[2]])

\* Option(inner): #value.map(|v| inner)
infallible_option(value, inner) ==
    IF value = None THEN None ELSE some_of(infallible_expr(value[2], inner))

\* an Iterator arm that collects the elements back to front
infallible_iterator_reversed(value, inner) ==
    collect_vec([i \in 1..Len(value[2]) |->
                    infallible_expr(value[2][Len(value[2]) + 1 - i], inner)])

\* Iterator(inner): #value.into_iter().map(|v| inner).collect()
infallible_iterator(value, inner) ==
    collect_vec([i \in 1..Len(value[2]) |-> infallible_expr(value[2][i], inner)])

\* HashMap(k, v), for the keys in iteration order
infallible_pairs(f, keys, key_method, val_method) ==
    collect_map([i \in 1..Len(keys) |->
                    <<infallible_expr(keys[i], key_method),
                      infallible_expr(f[keys[i]], val_method)>>])

\* HashMap(k, v): #value.into_iter().map(|(k, v)| (key, val)).collect()
infallible_hashmap(value, key_method, val_method) ==
    infallible_pairs(value[2], IterKeys(value[2]), key_method, val_method)

\* UnwrapOption(inner): #value.expect(..), then inner
infallible_unwrap_option(value, inner) ==
    IF value = None THEN Panic("Expected value to exist when converting")
    ELSE infallible_expr(value[2], inner)

\* an UnwrapOrDefault arm that expects the value as UnwrapOption does
infallible_unwrap_expecting(value, inner) ==
    IF value = None THEN Panic("Expected value to exist when converting")
    ELSE infallible_expr(value[2], inner)

\* UnwrapOrDefault(inner): #value.unwrap_or_default(), then inner
infallible_unwrap_or_default(value, inner) ==
    infallible_expr(IF value = None THEN DefaultOf(inner) ELSE value[2], inner)

\* SomeOption(inner): Some(inner)
infallible_some_option(value, inner) == some_of(infallible_expr(value, inner))

\* derive_into.rs: infallible_expr
infallible_expr(value, method) ==
    CASE method[1] = "Plain" -> infallible_plain(value)
      [] method[1] = "Option" -> infallible_option(value, method[2])
      [] method[1] = "Iterator" -> infallible_iterator(value, method[2])
      [] method[1] = "HashMap" -> infallible_hashmap(value, method[2], method[3])
      [] method[1] = "UnwrapOption" -> infallible_unwrap_option(value, method[2])
      [] method[1] = "UnwrapOrDefault" -> infallible_unwrap_or_default(value, method[2])
      [] method[1] = "SomeOption" -> infallible_some_option(value, method[2])

(***************************************************************************)
(* The value of the expression fallible_expr emits: Ok(v) or Err(String).  *)
(***************************************************************************)
RECURSIVE fallible_expr(_, _)

\* Result::map(Some)
ok_some(r) == IF IsErr(r) THEN r ELSE Ok(Some(r[2]))

\* Plain: #value.try_into().map_err(|e| format!("{:?}", e))
fallible_plain(value) ==
    IF IsOk(env.try_into[value[2]])
    THEN Ok(L(env.try_into[value[2]][2]))
    ELSE Err(Debug(env.try_into[value[2]][2]))

\* an Option arm that maps and leaves the result of the closure as it is
fallible_option_unwrapped(value, inner) ==
    IF value = None THEN Ok(None) ELSE fallible_expr(value[2], inner)

\* Option(inner): #value.map(|v| inner).transpose()
fallible_option(value, inner) ==
    IF value = None THEN Ok(None) ELSE ok_some(fallible_expr(value[2], inner))

\* the Iterator arm: collect::<Result<_, _>>() stops at the first Err
RECURSIVE CollectResults(_, _, _, _)

\* a collect that goes on after a failure and returns the last one it met
collect_next_to_the_end(items, method, i, acc, r) ==
    IF IsErr(r) /\ IsErr(CollectResults(items, method, i + 1, acc))
    THEN CollectResults(items, method, i + 1, acc)
    ELSE IF IsErr(r) THEN r
    ELSE CollectResults(items, method, i + 1, Append(acc, r[2]))

collect_next(items, method, i, acc, r) ==
    IF IsErr(r) THEN r ELSE CollectResults(items, method, i + 1, Append(acc, r[2]))

CollectResults(items, method, i, acc) ==
    IF i > Len(items) THEN Ok(Vec(acc))
    ELSE collect_next(items, method, i, acc, fallible_expr(items[i], method))

\* Iterator(inner): #value.into_iter().map(|v| inner).collect::<Result<_, _>>()
fallible_iterator(value, inner) == CollectResults(value[2], inner, 1, <<>>)

\* the HashMap arm: for (k, v) in value { result.insert(key?, val?); }
RECURSIVE InsertResults(_, _, _, _, _, _)
insert_val(f, keys, key_method, val_method, i, acc, k, v) ==
    IF IsErr(v) THEN v
    ELSE InsertResults(f, keys, key_method, val_method, i + 1, Insert(acc, k[2], v[2]))

insert_key(f, keys, key_method, val_method, i, acc, k) ==
    IF IsErr(k) THEN k
    ELSE insert_val(f, keys, key_method, val_method, i, acc, k,
                    fallible_expr(f[keys[i]], val_method))

InsertResults(f, keys, key_method, val_method, i, acc) ==
    IF i > Len(keys) THEN Ok(Map(acc))
    ELSE insert_key(f, keys, key_method, val_method, i, acc,
                    fallible_expr(keys[i], key_method))

\* HashMap(k, v): the closure, called at once
fallible_hashmap(value, key_method, val_method) ==
    InsertResults(value[2], IterKeys(value[2]), key_method, val_method, 1, EmptyMap)

\* an UnwrapOption arm that takes the default of an empty value
fallible_unwrap_defaulting(value, inner) ==
    fallible_expr(IF value = None THEN DefaultOf(inner) ELSE value[2], inner)

\* UnwrapOption(inner): #value.ok_or_else(..).and_then(|__unwrapped| inner)
fallible_unwrap_option(value, inner) ==
    IF value = None THEN Err("Expected value to exist")
    ELSE fallible_expr(value[2], inner)

\* UnwrapOrDefault(inner): #value.unwrap_or_default(), then inner
fallible_unwrap_or_default(value, inner) ==
    fallible_expr(IF value = None THEN DefaultOf(inner) ELSE value[2], inner)

\* a SomeOption arm that leaves the converted value bare
fallible_some_option_bare(value, inner) == fallible_expr(value, inner)

\* SomeOption(inner): inner.map(Some)
fallible_some_option(value, inner) == ok_some(fallible_expr(value, inner))

\* derive_into.rs: fallible_expr
fallible_expr(value, method) ==
    CASE method[1] = "Plain" -> fallible_plain(value)
      [] method[1] = "Option" -> fallible_option(value, method[2])
      [] method[1] = "Iterator" -> fallible_iterator(value, method[2])
      [] method[1] = "HashMap" -> fallible_hashmap(value, method[2], method[3])
      [] method[1] = "UnwrapOption" -> fallible_unwrap_option(value, method[2])
      [] method[1] = "UnwrapOrDefault" -> fallible_unwrap_or_default(value, method[2])
      [] method[1] = "SomeOption" -> fallible_some_option(value, method[2])

(***************************************************************************)
(* The plain values handed to the user's try_into while the expression     *)
(* fallible_expr emits is evaluated, in the order of the calls.            *)
(***************************************************************************)
RECURSIVE try_into_calls(_, _)

\* the Iterator arm: the closure of map runs on the elements one by one, as
\* collect() asks for them, and collect() asks for no more after an Err
RECURSIVE iterator_calls(_, _, _)
iterator_calls(items, method, i) ==
    IF i > Len(items) THEN <<>>
    ELSE IF IsErr(fallible_expr(items[i], method)) THEN try_into_calls(items[i], method)
    ELSE try_into_calls(items[i], method) \o iterator_calls(items, method, i + 1)

\* the HashMap arm: #key_expr? is evaluated before #val_expr?, and a `?` that
\* meets an Err leaves the loop
RECURSIVE hashmap_calls(_, _, _, _, _)
hashmap_calls(f, keys, key_method, val_method, i) ==
    IF i > Len(keys) THEN <<>>
    ELSE IF IsErr(fallible_expr(keys[i], key_method)) THEN try_into_calls(keys[i], key_method)
    ELSE IF IsErr(fallible_expr(f[keys[i]], val_method))
    THEN try_into_calls(keys[i], key_method) \o try_into_calls(f[keys[i]], val_method)
    ELSE try_into_calls(keys[i], key_method) \o try_into_calls(f[keys[i]], val_method)
           \o hashmap_calls(f, keys, key_method, val_method, i + 1)

try_into_calls(value, method) ==
    CASE method[1] = "Plain" -> <<value[2]>>
      [] method[1] \in {"Option", "UnwrapOption"} ->
            IF value = None THEN <<>> ELSE try_into_calls(value[2], method[2])
      [] method[1] = "Iterator" -> iterator_calls(value[2], method[2], 1)
      [] method[1] = "HashMap" ->
            hashmap_calls(value[2], IterKeys(value[2]), method[2], method[3], 1)
      [] method[1] = "UnwrapOrDefault" ->
            try_into_calls(IF value = None THEN DefaultOf(method[2]) ELSE value[2], method[2])
      [] method[1] = "SomeOption" -> try_into_calls(value, method[2])

(***************************************************************************)
(* The statement emitted for one field (derive_into.rs), evaluated in the  *)
(* running routine.  <<"Skip">> when nothing is emitted, else              *)
(* <<"Field", label, r>> with r the value of the expression: for the       *)
(* fallible form Ok(v) or Err(text), the `?` operand; for the infallible   *)
(* form a value or Panic(text).                                            *)
(***************************************************************************)
\* a failure text that names the target before the source
FailureTextSwapped(source_text, target_text, error_text) ==
    "Failed trying to convert " \o target_text \o " to " \o source_text \o ": " \o error_text

\* format!("Failed trying to convert {} to {}: {}", ...)
FailureText(source_text, target_text, error_text) ==
    "Failed trying to convert " \o source_text \o " to " \o target_text \o ": " \o error_text

\* the tokens read for the field: quote!(source.#source_name) or as_named()
source_tokens(source_name, source_prefix) ==
    IF source_prefix THEN "source." \o to_tokens(source_name) ELSE as_named(source_name)

\* named_start: the label `target_name:` of a named target, nothing otherwise
named_start(target_name, named) ==
    IF named THEN Some(to_tokens(target_name)) ELSE None

\* the value Default::default() yields for a target field
DefaultValue == <<"Default">>
\* the value the user's with_func returns when it succeeds
FuncValue == <<"Func">>

\* field_falliable_conversion: #func(&source).map_err(|e| format!(".. {:?}", ..))
func_call(source_name, target_type) ==
    IF IsOk(env.with_func) THEN Ok(FuncValue)
    ELSE Err(FailureText(source_name, target_type, Debug(env.with_func[2])))

\* field_falliable_conversion: #expr.map_err(|e| format!(".. {}", ..))
map_err(expr, source_name, target_type) ==
    IF IsOk(expr) THEN expr
    ELSE Err(FailureText(source_name, target_type, Display(expr[2])))

\* derive_into.rs: field_falliable_conversion
field_falliable_conversion(field, target_type, named, source_prefix) ==
    IF field.skip THEN <<"Skip">>
    ELSE IF field.default
    THEN <<"Field", named_start(field.target_name, named), Ok(DefaultValue)>>
    ELSE IF IsSome(field.conversion_func)
    THEN <<"Field", named_start(field.target_name, named),
           func_call(source_tokens(field.source_name, source_prefix), target_type)>>
    ELSE <<"Field", named_start(field.target_name, named),
           map_err(fallible_expr(scope.vals[source_tokens(field.source_name, source_prefix)],
                                 field.method),
                   source_tokens(field.source_name, source_prefix), target_type)>>

\* derive_into.rs: field_infalliable_conversion
field_infalliable_conversion(field, named, source_prefix) ==
    IF field.skip THEN <<"Skip">>
    ELSE IF field.default
    THEN <<"Field", named_start(field.target_name, named), DefaultValue>>
    ELSE IF IsSome(field.conversion_func)
    THEN <<"Field", named_start(field.target_name, named), FuncValue>>
    ELSE <<"Field", named_start(field.target_name, named),
           infallible_expr(scope.vals[source_tokens(field.source_name, source_prefix)],
                           field.method)>>

\* derive_into.rs: build_field_conversions, for one field
build_field_conversion(m, named, source_prefix, field) ==
    IF is_falliable(m.method)
    THEN field_falliable_conversion(field, m.target_name, named, source_prefix)
    ELSE field_infalliable_conversion(field, named, source_prefix)

(***************************************************************************)
(* The assemblers.  A generated routine is kept as the data its text is    *)
(* made of: the plan, the shape of the target, the emitted field           *)
(* statements in emission order, the validate call, the default clause.    *)
(***************************************************************************)
\* an assembler that emits the default clause for any struct
implement_struct_conversion_unguarded(m, named_struct, fields) ==
    Ok([kind |-> "struct",
        meta |-> m,
        fallible |-> is_falliable(m.method),
        validate_call |-> IF is_falliable(m.method) THEN m.validate ELSE None,
        default_fields |-> m.default_allowed,
        arms |-> << [source_name |-> None, target_name |-> None,
                     named_variant |-> named_struct, fields |-> fields] >>])

\* struct_convert.rs: implement_struct_conversion
implement_struct_conversion(m, named_struct, fields) ==
    IF ~named_struct /\ m.default_allowed
    THEN Err([msg |-> "Default values are not supported for unnamed structs",
              span |-> "source_name", field |-> 0])
    ELSE Ok([kind |-> "struct",
             meta |-> m,
             fallible |-> is_falliable(m.method),
             validate_call |-> IF is_falliable(m.method) THEN m.validate ELSE None,
             default_fields |-> m.default_allowed,
             arms |-> << [source_name |-> None, target_name |-> None,
                          named_variant |-> named_struct, fields |-> fields] >>])

\* struct_convert.rs: implement_all_struct_conversions, the `?` on the fields
struct_conversion_of(conversion, named_struct, fields) ==
    IF IsErr(fields) THEN fields
    ELSE implement_struct_conversion(conversion, named_struct, fields[2])

\* struct_convert.rs: implement_all_struct_conversions, for one conversion
implement_one_struct_conversion(data_struct, conversion) ==
    struct_conversion_of(conversion, data_struct.named,
        extract_convertible_fields(data_struct.fields, conversion.method,
                                   other_type(conversion)))

\* conversion_enum.rs: extract_enum_variants.  The variants are paired by name
\* after the variant's rename; each carries its field list, built as a
\* struct's is.
ConversionVariant(ident, renamed, from, named_variant, fields) ==
    [source_name |-> Some(IF from THEN renamed ELSE ident),
     target_name |-> Some(IF from THEN ident ELSE renamed),
     named_variant |-> named_variant,
     fields |-> fields]

RECURSIVE extract_enum_variants_from(_, _, _, _, _)
after_variant(variants, i, acc, conversion_type, other, fields) ==
    IF IsErr(fields) THEN fields
    ELSE extract_enum_variants_from(variants, i + 1,
            Append(acc, ConversionVariant(variants[i].ident,
                            IF IsSome(variants[i].rename) THEN variants[i].rename[2]
                            ELSE variants[i].ident,
                            is_from(conversion_type), variants[i].named, fields[2])),
            conversion_type, other)

extract_enum_variants_from(variants, i, acc, conversion_type, other) ==
    IF i > Len(variants) THEN Ok(acc)
    ELSE after_variant(variants, i, acc, conversion_type, other,
            extract_convertible_fields(variants[i].fields, conversion_type, other))

extract_enum_variants(data_enum, conversion_type, other) ==
    extract_enum_variants_from(data_enum.variants, 1, <<>>, conversion_type, other)

\* enum_convert.rs: implement_enum_conversion
implement_enum_conversion(m, variants) ==
    Ok([kind |-> "enum",
        meta |-> m,
        fallible |-> is_falliable(m.method),
        validate_call |-> IF is_falliable(m.method) THEN m.validate ELSE None,
        default_fields |-> m.default_allowed,
        arms |-> variants])

\* enum_convert.rs: implement_all_enum_conversions, the `?` on the variants
enum_conversion_of(conversion, variants) ==
    IF IsErr(variants) THEN variants
    ELSE implement_enum_conversion(conversion, variants[2])

\* enum_convert.rs: implement_all_enum_conversions, for one conversion
implement_one_enum_conversion(data_enum, conversion) ==
    enum_conversion_of(conversion,
        extract_enum_variants(data_enum, conversion.method, other_type(conversion)))

\* derive_into.rs: try_convert_derive, for one conversion
try_convert_derive(ast, conversion) ==
    IF ast.kind = "struct"
    THEN implement_one_struct_conversion(ast, conversion)
    ELSE implement_one_enum_conversion(ast, conversion)

(***************************************************************************)
(* Type-level attributes (conversion_meta.rs).                             *)
(***************************************************************************)
ConvAttrs(path, default, validate) ==
    [path |-> path, default |-> default, validate |-> validate]

ConversionMeta(source_name, target_name, method, default_allowed, validate) ==
    [source_name |-> source_name, target_name |-> target_name, method |-> method,
     default_allowed |-> default_allowed, validate |-> validate]

\* extract_conversions: the metas of the four lists, in the order pushed
metas_of(ident, a) ==
    [i \in 1..Len(a.into) |->
        ConversionMeta(ident, a.into[i].path, "Into", a.into[i].default, None)]
    \o [i \in 1..Len(a.try_into) |->
        ConversionMeta(ident, a.try_into[i].path, "TryInto",
                       a.try_into[i].default, a.try_into[i].validate)]
    \o [i \in 1..Len(a.from) |->
        ConversionMeta(a.from[i].path, ident, "From", a.from[i].default, None)]
    \o [i \in 1..Len(a.try_from) |->
        ConversionMeta(a.try_from[i].path, ident, "TryFrom",
                       a.try_from[i].default, a.try_from[i].validate)]

\* an extract_conversions that takes a hook wherever it is written
extract_conversions_unchecked(ast) ==
    Ok(metas_of(ast.ident, ast.attrs))

\* conversion_meta.rs: extract_conversions.  Ok(metas), or Panic(text)
extract_conversions(ast) ==
    IF \/ \E i \in 1..Len(ast.attrs.into) : IsSome(ast.attrs.into[i].validate)
       \/ \E i \in 1..Len(ast.attrs.from) : IsSome(ast.attrs.from[i].validate)
    THEN Panic("validate is only supported on fallible conversions (try_from/try_into)")
    ELSE Ok(metas_of(ast.ident, ast.attrs))

\* implement_all_struct_conversions / implement_all_enum_conversions: the
\* routines of the conversions from index i on; the first error ends it
RECURSIVE implement_all_from(_, _, _, _)
\* a collect that leaves out the conversions that failed
after_conversion_skipping(ast, conversions, i, acc, r) ==
    implement_all_from(ast, conversions, i + 1, IF IsErr(r) THEN acc ELSE Append(acc, r[2]))

after_conversion(ast, conversions, i, acc, r) ==
    IF IsErr(r) THEN r
    ELSE implement_all_from(ast, conversions, i + 1, Append(acc, r[2]))

implement_all_from(ast, conversions, i, acc) ==
    IF i > Len(conversions) THEN Ok(acc)
    ELSE after_conversion(ast, conversions, i, acc, try_convert_derive(ast, conversions[i]))

\* derive_into.rs: try_convert_derive, over the conversions extracted
implement_all(ast, conversions) ==
    IF IsPanic(conversions) THEN conversions
    ELSE implement_all_from(ast, conversions[2], 1, <<>>)

\* lib.rs: derive_into
derive_into(ast) == implement_all(ast, extract_conversions(ast))

(***************************************************************************)
(* Run-time values of bounded size.                                        *)
(***************************************************************************)
RECURSIVE SumSeq(_)
SumSeq(ns) == IF ns = <<>> THEN 0 ELSE Head(ns) + SumSeq(Tail(ns))

RECURSIVE SumSet(_, _)
SumSet(f, keys) ==
    IF keys = {} THEN 0
    ELSE LET k == CHOOSE x \in keys : TRUE IN f[k] + SumSet(f, keys \ {k})

\* the number of nodes of a value; the keys of a map are not counted
RECURSIVE Size(_)
Size(v) ==
    CASE v[1] = "Some" -> 1 + Size(v[2])
      [] v[1] = "Vec" -> 1 + SumSeq([i \in 1..Len(v[2]) |-> Size(v[2][i])])
      [] v[1] = "Map" -> 1 + SumSet([k \in DOMAIN v[2] |-> Size(v[2][k])], DOMAIN v[2])
      [] OTHER -> 1

\* the sequences of members of S that have at most n nodes together
RECURSIVE SeqsOf(_, _)
SeqsOf(S, n) ==
    {<<>>} \cup UNION {{<<x>> \o rest : rest \in SeqsOf(S, n - Size(x))} :
                        x \in {y \in S : Size(y) <= n}}

\* the maps from some of the keys ks to members of S, of at most n nodes together
RECURSIVE MapsOf(_, _, _)
MapsOf(ks, S, n) ==
    IF ks = <<>> THEN {EmptyMap}
    ELSE MapsOf(Tail(ks), S, n)
           \cup UNION {{Insert(m, Head(ks), x) : m \in MapsOf(Tail(ks), S, n - Size(x))} :
                        x \in {y \in S : Size(y) <= n}}

\* the values a strategy can be given, of at most n nodes.  The value read
\* under UnwrapOption / UnwrapOrDefault is an Option, the value read under
\* SomeOption is the bare value.  Map keys are plain values.
RECURSIVE ValuesFor(_, _)
ValuesFor(method, n) ==
    IF n < 1 THEN {}
    ELSE CASE method[1] = "Plain" -> {L(x) : x \in Leaf}
           [] method[1] \in {"Option", "UnwrapOption", "UnwrapOrDefault"} ->
                {None} \cup {Some(v) : v \in ValuesFor(method[2], n - 1)}
           [] method[1] = "Iterator" ->
                {Vec(s) : s \in SeqsOf(ValuesFor(method[2], n - 1), n - 1)}
           [] method[1] = "HashMap" ->
                {Map(f) : f \in MapsOf([i \in 1..(MaxLeaf + 1) |-> L(i - 1)],
                                       ValuesFor(method[3], n - 1), n - 1)}
           [] method[1] = "SomeOption" -> ValuesFor(method[2], n)

(***************************************************************************)
(* The running routine.                                                    *)
(***************************************************************************)
Routine == plan[2][cur]
Arm == Routine.arms[scope.arm]
Calls == SelectSeq(log, LAMBDA e : e[1] = "call")

\* the fields of an arm whose expression reads its source field
Reads(arm) ==
    SelectSeq(arm.fields, LAMBDA f : ~f.default /\ ~IsSome(f.conversion_func))

\* the records that hold, under keys[j], a value methods[j] can be given, for
\* the fields from j on, of at most n nodes together
RECURSIVE FieldMaps(_, _, _, _)
FieldMaps(keys, methods, j, n) ==
    IF j > Len(keys) THEN {EmptyMap}
    ELSE UNION {{Insert(m, keys[j], x) : m \in FieldMaps(keys, methods, j + 1, n - Size(x))} :
                 x \in ValuesFor(methods[j], n - (Len(keys) - j))}

\* a value of the source type
SourceValue(type, variant, fields) ==
    [type |-> type, variant |-> variant, rest |-> FALSE, fields |-> fields]

\* the source values a struct routine can be called with: a value for every
\* field it reads
StructSources(routine) ==
    {SourceValue(routine.meta.source_name, None, fields) :
        fields \in FieldMaps(
            [j \in 1..Len(Reads(routine.arms[1])) |->
                to_tokens(Reads(routine.arms[1])[j].source_name)],
            [j \in 1..Len(Reads(routine.arms[1])) |-> Reads(routine.arms[1])[j].method],
            1, MaxSize + Len(Reads(routine.arms[1])) - 1)}

\* the place of the j-th field of an arm's pattern in the source variant
PatternKey(arm, j) ==
    IF arm.named_variant THEN to_tokens(arm.fields[j].source_name) ELSE Digit(j - 1)

\* the source values an enum routine can be called with: one of the variants
\* it matches, with a value at every place of the arm's pattern
ArmSources(routine, arm) ==
    {SourceValue(routine.meta.source_name, arm.source_name, fields) :
        fields \in FieldMaps([j \in 1..Len(arm.fields) |-> PatternKey(arm, j)],
                             [j \in 1..Len(arm.fields) |-> arm.fields[j].method],
                             1, MaxSize + Len(arm.fields) - 1)}

EnumSources(routine) ==
    UNION {ArmSources(routine, routine.arms[a]) : a \in 1..Len(routine.arms)}

Sources(routine) ==
    IF routine.kind = "struct" THEN StructSources(routine) ELSE EnumSources(routine)

\* no place to read yet: an enum routine before its match
NoScope == [arm |-> 0, vals |-> EmptyMap]

\* what `source.<name>` reads in a struct routine
StructScope(routine, src) ==
    LET reads == Reads(routine.arms[1])
    IN  [arm |-> 1,
         vals |-> [t \in {source_tokens(reads[j].source_name, TRUE) : j \in 1..Len(reads)} |->
                     src.fields[to_tokens(
                        reads[CHOOSE j \in 1..Len(reads) :
                                source_tokens(reads[j].source_name, TRUE) = t].source_name)]]]

\* the bindings of the pattern of arm a: Source::V(field0, ...) binds by
\* position, Source::V { a, ... } by name
ArmScope(routine, a, src) ==
    LET arm == routine.arms[a]
        n == Len(arm.fields)
    IN  [arm |-> a,
         vals |-> [t \in {as_named(arm.fields[j].source_name) : j \in 1..n} |->
                     LET j == CHOOSE i \in 1..n : as_named(arm.fields[i].source_name) = t
                     IN  src.fields[IF arm.named_variant
                                    THEN to_tokens(arm.fields[j].source_name)
                                    ELSE Digit(j - 1)]]]

\* the target value the construction expression builds from the evaluated
\* field expressions
Constructed(routine, arm, parts) ==
    [type |-> routine.meta.target_name,
     variant |-> arm.target_name,
     rest |-> routine.default_fields /\ (routine.kind = "struct" \/ arm.named_variant)
                /\ (routine.kind = "struct" \/ Len(arm.fields) > 0),
     fields |-> [k \in {IF arm.named_variant THEN parts[i][1][2] ELSE Digit(i - 1) :
                         i \in 1..Len(parts)} |->
                   parts[CHOOSE i \in 1..Len(parts) :
                           k = (IF arm.named_variant THEN parts[i][1][2] ELSE Digit(i - 1))][2]]]

(***************************************************************************)
(* The declarations and user code the model is run on.                     *)
(***************************************************************************)
U32 == Ty("u32")
OptionOf(t) == Gen("Option", <<t>>)
VecOf(t) == Gen("Vec", <<t>>)
HashMapOf(k, v) == Gen("HashMap", <<k, v>>)

\* the field types of tests/cases/test_nested_containers.rs and their parts
FieldTypes ==
    {U32, OptionOf(U32), VecOf(U32), HashMapOf(U32, U32),
     OptionOf(VecOf(U32)), VecOf(OptionOf(U32)), VecOf(VecOf(U32)),
     OptionOf(HashMapOf(U32, U32)), OptionOf(OptionOf(U32)), HashMapOf(U32, VecOf(U32))}

RECURSIVE MentionsHashMap(_)
MentionsHashMap(ty) ==
    \/ ty.path = <<"HashMap">>
    \/ \E i \in 1..Len(ty.args) : MentionsHashMap(ty.args[i])

\* a field with no directive
Bare(ident, ty) ==
    ConvertField(ident, ty, FALSE, None, FALSE, FALSE, FALSE, None, <<>>, <<>>, <<>>, <<>>)

NoAttrs == [into |-> <<>>, try_into |-> <<>>, from |-> <<>>, try_from |-> <<>>]

\* #[convert(<method>(path = "Other", default?, validate?))]
Single(method, default, validate) ==
    CASE method = "Into" -> [NoAttrs EXCEPT !.into = <<ConvAttrs("Other", default, validate)>>]
      [] method = "TryInto" ->
            [NoAttrs EXCEPT !.try_into = <<ConvAttrs("Other", default, validate)>>]
      [] method = "From" -> [NoAttrs EXCEPT !.from = <<ConvAttrs("Other", default, validate)>>]
      [] method = "TryFrom" ->
            [NoAttrs EXCEPT !.try_from = <<ConvAttrs("Other", default, validate)>>]

Hooks == {None, Some("check")}

\* #[convert(into(path = "Other"))] #[convert(try_from(path = "Other", validate?))]
Pair(validate) ==
    [NoAttrs EXCEPT !.into = <<ConvAttrs("Other", FALSE, None)>>,
                    !.try_from = <<ConvAttrs("Other", FALSE, validate)>>]

StructDecl(attrs, named, fields) ==
    [ident |-> "Own", attrs |-> attrs, kind |-> "struct", named |-> named,
     fields |-> fields, variants |-> <<>>]

EnumDecl(attrs, variants) ==
    [ident |-> "Own", attrs |-> attrs, kind |-> "enum", named |-> FALSE,
     fields |-> <<>>, variants |-> variants]

\* one named field of a container type, bare or with unwrap / unwrap_or_default,
\* under one conversion or under the pair into + try_from
ContainerDecls ==
    {StructDecl(attrs, TRUE, <<[Bare(Some("items"), ty) EXCEPT !.unwrap = flags[1],
                                                               !.unwrap_or_default = flags[2]]>>) :
        attrs \in {Single(m, FALSE, None) : m \in ConversionMethod}
                    \cup {Pair(v) : v \in Hooks},
        ty \in FieldTypes,
        flags \in {<<FALSE, FALSE>>, <<TRUE, FALSE>>, <<FALSE, TRUE>>}}

\* a plain field carrying one directive
Directed(ident, kind) ==
    CASE kind = "default" -> [Bare(ident, U32) EXCEPT !.default = TRUE]
      [] kind = "func" -> [Bare(ident, U32) EXCEPT !.with_func = Some("make")]
      [] kind = "rename" -> [Bare(ident, U32) EXCEPT !.rename = Some("third")]
      [] kind = "skip" -> [Bare(ident, U32) EXCEPT !.skip = TRUE]
      [] OTHER -> Bare(ident, U32)

TypeAttrs ==
    {Single(m, d, None) : m \in ConversionMethod, d \in BOOLEAN}
      \cup {Single(m, d, Some("check")) : m \in {"TryInto", "TryFrom"}, d \in BOOLEAN}

\* two plain fields with directives, in a named or a positional struct
DirectiveDecls ==
    {StructDecl(attrs, named,
        <<Directed(IF named THEN Some("first") ELSE None, ka),
          Directed(IF named THEN Some("second") ELSE None, kb)>>) :
        attrs \in TypeAttrs \cup {Pair(None)},
        named \in BOOLEAN,
        ka \in {"plain", "default", "func"},
        kb \in {"plain", "func", "rename", "skip"}}

\* enum Own { A, B(T) } with B renamed or not
EnumDecls ==
    {EnumDecl(attrs,
        <<[ident |-> "A", rename |-> None, named |-> FALSE, fields |-> <<>>],
          [ident |-> "B", rename |-> rename, named |-> FALSE, fields |-> <<Bare(None, ty)>>]>>) :
        attrs \in {a \in TypeAttrs : \A m \in DOMAIN a : \A i \in 1..Len(a[m]) : ~a[m][i].default},
        rename \in {None, Some("Renamed")},
        ty \in {U32, VecOf(U32)}}

\* a direction-scoped entry carrying one directive; its rename and function
\* are named after its path, so that the entry a plan took them from shows
PathName(path) == IF IsSome(path) THEN path[2] ELSE "Any"

Entry(path, kind) ==
    ConvertFieldAttr(path, kind = "skip", kind = "unwrap", kind = "unwrap_or_default",
                     kind = "default",
                     IF kind = "rename" THEN Some("to" \o PathName(path)) ELSE None,
                     IF kind = "func" THEN Some("make" \o PathName(path)) ELSE None)

EntryKinds == <<"none", "skip", "unwrap", "unwrap_or_default", "default", "rename", "func">>
EntryPaths == <<None, Some("Other"), Some("Third")>>

\* the entries that can be written, numbered
Entries ==
    [i \in 1..(Len(EntryPaths) * Len(EntryKinds)) |->
        Entry(EntryPaths[((i - 1) \div Len(EntryKinds)) + 1],
              EntryKinds[((i - 1) % Len(EntryKinds)) + 1])]

\* the lists of at most n entries.  The plan reads the entries that match and
\* takes one only when it is alone, so the order they are written in has no
\* effect: the lists are taken in the order of the numbering
EntryLists(n) ==
    UNION {{[j \in 1..k |-> Entries[ix[j]]] :
              ix \in {f \in [1..k -> 1..Len(Entries)] :
                        \A j \in 1..(k - 1) : f[j] <= f[j + 1]}} : k \in 0..n}

\* an unscoped directive on the field, none or one
Unscoped(kind) ==
    CASE kind = "unwrap" -> [Bare(Some("items"), OptionOf(U32)) EXCEPT !.unwrap = TRUE]
      [] kind = "unwrap_or_default" ->
            [Bare(Some("items"), OptionOf(U32)) EXCEPT !.unwrap_or_default = TRUE]
      [] kind = "default" -> [Bare(Some("items"), OptionOf(U32)) EXCEPT !.default = TRUE]
      [] kind = "rename" -> [Bare(Some("items"), OptionOf(U32)) EXCEPT !.rename = Some("toAll")]
      [] kind = "func" -> [Bare(Some("items"), OptionOf(U32)) EXCEPT !.with_func = Some("makeAll")]
      [] kind = "skip" -> [Bare(Some("items"), OptionOf(U32)) EXCEPT !.skip = TRUE]
      [] OTHER -> Bare(Some("items"), OptionOf(U32))

\* the field with the entries es written for the direction of method
Scoped(field, method, es) ==
    CASE method = "Into" -> [field EXCEPT !.into = es]
      [] method = "TryInto" -> [field EXCEPT !.try_into = es]
      [] method = "From" -> [field EXCEPT !.from = es]
      [] method = "TryFrom" -> [field EXCEPT !.try_from = es]

\* one Option field carrying an unscoped directive and direction-scoped
\* entries, under one conversion with Other
ScopedDecls ==
    {StructDecl(Single(m, FALSE, None), TRUE, <<Scoped(Unscoped(kind), m, es)>>) :
        m \in ConversionMethod,
        kind \in {EntryKinds[i] : i \in 1..Len(EntryKinds)},
        es \in EntryLists(MaxEntries)}

\* one field carrying entries of the plan's direction and, beside them, entries
\* written for the same path in another direction
CrossDecls ==
    {StructDecl(Single(m, FALSE, None), TRUE,
        <<Scoped(Scoped(Bare(Some("items"), OptionOf(U32)), m, es), m2, others)>>) :
        m \in ConversionMethod,
        es \in EntryLists(MaxEntries),
        m2 \in ConversionMethod,
        others \in {<<>>, <<Entry(Some("Other"), "rename"), Entry(Some("Other"), "skip")>>}}

\* the directives of a field, set or not one by one
Flagged(ident, ty, skip, unwrap, unwrap_or_default, default, with_func) ==
    [Bare(ident, ty) EXCEPT !.skip = skip, !.unwrap = unwrap,
                            !.unwrap_or_default = unwrap_or_default,
                            !.default = default, !.with_func = with_func]

\* one field of any of the field types with any combination of skip, unwrap,
\* unwrap_or_default, default and a custom function, written unscoped or in one
\* entry of the plan's direction that names no path
FlagDecls ==
    {StructDecl(Single(m, FALSE, None), TRUE,
        <<IF scoped
          THEN Scoped(Bare(Some("items"), ty), m,
                      <<ConvertFieldAttr(None, f[1], f[2], f[3], f[4], None, w)>>)
          ELSE Flagged(Some("items"), ty, f[1], f[2], f[3], f[4], w)>>) :
        m \in ConversionMethod,
        ty \in FieldTypes,
        f \in [1..4 -> BOOLEAN],
        w \in {None, Some("make")},
        scoped \in BOOLEAN}

\* a validation hook written on an infallible conversion, alone or beside a
\* hook on a fallible one, on a field that is fine or that the resolver rejects
HookDecls ==
    {StructDecl(attrs, TRUE, <<Flagged(Some("items"), U32, FALSE, both, both, FALSE, None)>>) :
        attrs \in {Single("Into", FALSE, Some("check")),
                   Single("From", FALSE, Some("check")),
                   [NoAttrs EXCEPT !.try_into = <<ConvAttrs("Other", FALSE, Some("check"))>>,
                                   !.from = <<ConvAttrs("Other", FALSE, Some("check"))>>],
                   [NoAttrs EXCEPT !.into = <<ConvAttrs("Other", FALSE, Some("check"))>>,
                                   !.try_from = <<ConvAttrs("Other", FALSE, None)>>]},
        both \in BOOLEAN}

\* the struct of the crate documentation's Basic Usage, fields id and name,
\* with name renamed by an unscoped directive, by an entry of the direction, by
\* both or by neither
RenameDecls ==
    {StructDecl(Single(m, FALSE, None), TRUE,
        <<Bare(Some("id"), U32),
          Scoped([Bare(Some("name"), U32) EXCEPT !.rename = r], m, es)>>) :
        m \in ConversionMethod,
        r \in {None, Some("full_name")},
        es \in {<<>>, <<Entry(None, "rename")>>, <<Entry(Some("Other"), "rename")>>,
                <<Entry(Some("Third"), "rename")>>, <<Entry(Some("Other"), "none")>>}}

\* one field holding a sequence or a mapping, under a fallible conversion
FailDecls ==
    {StructDecl(Single(m, FALSE, None), TRUE, <<Bare(Some("items"), ty)>>) :
        m \in {"TryInto", "TryFrom"},
        ty \in {VecOf(U32), VecOf(VecOf(U32)), VecOf(OptionOf(U32)),
                HashMapOf(U32, U32), HashMapOf(U32, VecOf(U32))}}

\* the declared types of nesting depth at most d: the containers the resolver
\* knows, a container it does not know, and at the bottom a plain type and
\* the near misses (a container name without its arguments, a HashMap with
\* one argument, a Vec written with its full path)
RECURSIVE TypesTo(_)
TypesTo(d) ==
    IF d = 0
    THEN {U32, Ty("Option"), Gen("HashMap", <<U32>>),
          Qualified(<<"std", "vec", "Vec">>, <<U32>>)}
    ELSE TypesTo(d - 1)
           \cup {OptionOf(t) : t \in TypesTo(d - 1)}
           \cup {VecOf(t) : t \in TypesTo(d - 1)}
           \cup {Gen("Box", <<t>>) : t \in TypesTo(d - 1)}
           \cup {HashMapOf(U32, t) : t \in TypesTo(d - 1)}
           \cup {HashMapOf(t, U32) : t \in TypesTo(d - 1)}

\* one field of any of these types, with no directive
TypeDecls ==
    {StructDecl(Single(m, FALSE, None), TRUE, <<Bare(Some("items"), ty)>>) :
        m \in ConversionMethod, ty \in TypesTo(MaxDepth)}

\* what the user's impls do on plain values
Identity == [x \in Leaf |-> x]
Rotate == [x \in Leaf |-> (x + 1) % (MaxLeaf + 1)]
Collapse == [x \in Leaf |-> 0]

\* the user's TryFrom: Ok(y), or Err(e) with e the error of the plain value
Accept(f) == [x \in Leaf |-> Ok(f[x])]
RejectAt(f, n) == [x \in Leaf |-> IF x = n THEN Err(LeafError(x)) ELSE Ok(f[x])]
RejectAll == [x \in Leaf |-> Err(LeafError(x))]
\* the fallible conversion that undoes `into` where it can and fails elsewhere
LeftInverse(into) ==
    [y \in Leaf |-> IF \E x \in Leaf : into[x] = y
                    THEN Ok(CHOOSE x \in Leaf : into[x] = y)
                    ELSE Err(LeafError(y))]

\* the orders a HashMap may iterate its keys in
KeyOrders ==
    {o \in [1..Cardinality(KeyVals) -> KeyVals] :
        \A i, j \in 1..Cardinality(KeyVals) : i # j => o[i] # o[j]}
AscendingKeys == [i \in 1..Cardinality(KeyVals) |-> L(i - 1)]

AllFields(d) ==
    IF d.kind = "struct" THEN d.fields
    ELSE IF Len(d.variants) = 0 THEN <<>> ELSE d.variants[Len(d.variants)].fields

Declares(d, methods) ==
    \E m \in methods : Len(d.attrs[m]) > 0

\* the infallible impls a declaration can meet
Intos(d) ==
    IF ~Declares(d, {"into", "from"}) THEN {Identity}
    ELSE IF \E i \in 1..Len(AllFields(d)) : AllFields(d)[i].ty # U32
    THEN {Identity, Rotate, Collapse}
    ELSE {Identity, Rotate}

\* the fallible impls a declaration can meet, beside the infallible impl into
TryIntos(d, into) ==
    IF ~Declares(d, {"try_into", "try_from"}) THEN {Accept(Identity)}
    ELSE IF Declares(d, {"into", "from"}) THEN {Accept(Identity), LeftInverse(into)}
    ELSE IF \E i \in 1..Len(AllFields(d)) : AllFields(d)[i].ty # U32
    THEN {Accept(Identity), Accept(Rotate), Accept(Collapse),
          RejectAt(Identity, 0), RejectAt(Collapse, MaxLeaf)}
    ELSE {Accept(Identity), RejectAt(Identity, 0)}

\* the user code a declaration can meet: every behaviour of the impls its
\* routines call, one fixed behaviour for those they never call
Envs(d) ==
    UNION {
      {[into |-> i, try_into |-> t, validate |-> v, with_func |-> w, hash_order |-> o] :
         t \in TryIntos(d, i),
         v \in IF \E m \in DOMAIN d.attrs : \E k \in 1..Len(d.attrs[m]) :
                     IsSome(d.attrs[m][k].validate)
               THEN {Ok(<<>>), Err("invalid")} ELSE {Ok(<<>>)},
         w \in IF Declares(d, {"try_into", "try_from"})
                  /\ \E k \in 1..Len(AllFields(d)) : IsSome(AllFields(d)[k].with_func)
               THEN {Ok(FuncValue), Err("custom")} ELSE {Ok(FuncValue)},
         o \in IF \E k \in 1..Len(AllFields(d)) : MentionsHashMap(AllFields(d)[k].ty)
               THEN KeyOrders ELSE {AscendingKeys}}
      : i \in Intos(d)}

\* user code that never fails
QuietEnv ==
    [into |-> Identity, try_into |-> Accept(Identity), validate |-> Ok(<<>>),
     with_func |-> Ok(FuncValue), hash_order |-> AscendingKeys]

(***************************************************************************)
(* The state machine: the macro runs on the declaration, then a generated  *)
(* routine is called and runs statement by statement.                      *)
(***************************************************************************)
InitWith(decls) ==
    /\ decl \in decls
    /\ env \in Envs(decl)
    /\ plan = None
    /\ cur = 0
    /\ source = None
    /\ scope = NoScope
    /\ pc = "derive"
    /\ idx = 1
    /\ built = <<>>
    /\ result = None
    /\ log = <<>>

Init ==
    InitWith(ContainerDecls \cup DirectiveDecls \cup EnumDecls \cup HookDecls
               \cup RenameDecls)

\* lib.rs: derive_into
Derive ==
    /\ pc = "derive"
    /\ plan' = derive_into(decl)
    /\ pc' = IF IsOk(plan') THEN "ready" ELSE "rejected"
    /\ UNCHANGED <<decl, cur, env, source, scope, idx, built, result, log>>

\* the entry of the generated fn from / fn try_from of routine j
Start(j, src) ==
    /\ cur' = j
    /\ source' = src
    /\ scope' = IF plan[2][j].kind = "struct" THEN StructScope(plan[2][j], src) ELSE NoScope
    /\ pc' = IF IsSome(plan[2][j].validate_call) THEN "validate"
             ELSE IF plan[2][j].kind = "enum" THEN "dispatch" ELSE "fields"
    /\ idx' = 1
    /\ built' = <<>>
    /\ result' = None
    /\ log' = Append(log, <<"call", j, src>>)
    /\ UNCHANGED <<decl, plan, env>>

\* user code calls one of the generated routines
Call ==
    /\ pc = "ready"
    /\ \E j \in 1..Len(plan[2]) : \E src \in Sources(plan[2][j]) : Start(j, src)

\* a validate call whose failure is dropped
ValidateUnchecked ==
    /\ pc = "validate"
    /\ log' = Append(log, <<"validate", source>>)
    /\ pc' = IF Routine.kind = "enum" THEN "dispatch" ELSE "fields"
    /\ UNCHANGED <<decl, plan, cur, env, source, scope, idx, built, result>>

\* struct_convert.rs / enum_convert.rs: validate_call
Validate ==
    /\ pc = "validate"
    /\ log' = Append(log, <<"validate", source>>)
    /\ IF IsOk(env.validate)
       THEN /\ pc' = IF Routine.kind = "enum" THEN "dispatch" ELSE "fields"
            /\ result' = result
       ELSE /\ pc' = "done"
            /\ result' = Err(FailureText(Routine.meta.source_name, Routine.meta.target_name,
                                         Display(env.validate[2])))
    /\ UNCHANGED <<decl, plan, cur, env, source, scope, idx, built>>

\* enum_convert.rs: match source { ... }
Dispatch ==
    /\ pc = "dispatch"
    /\ \E a \in 1..Len(Routine.arms) :
          /\ Routine.arms[a].source_name = source.variant
          /\ \A b \in 1..(a - 1) : Routine.arms[b].source_name # source.variant
          /\ scope' = ArmScope(Routine, a, source)
          /\ log' = Append(log, <<"dispatch", a>>)
    /\ pc' = "fields"
    /\ UNCHANGED <<decl, plan, cur, env, source, idx, built, result>>

\* the `?` of a fallible field statement, the unwinding of an infallible one
Stops(r) ==
    /\ r[1] # "Skip"
    /\ IF Routine.fallible THEN IsErr(r[3]) ELSE IsPanic(r[3])

\* the next field statement of the construction expression
Evaluate(r) ==
    /\ log' = Append(log, <<"field", idx>>)
    /\ pc' = IF Stops(r) THEN "done" ELSE pc
    /\ result' = IF Stops(r) THEN r[3] ELSE result
    /\ idx' = IF Stops(r) THEN idx ELSE idx + 1
    /\ built' = IF Stops(r) \/ r[1] = "Skip" THEN built
                ELSE Append(built, <<r[2], IF Routine.fallible THEN r[3][2] ELSE r[3]>>)

ConvertFieldStep ==
    /\ pc = "fields"
    /\ idx <= Len(Arm.fields)
    /\ Evaluate(build_field_conversion(Routine.meta, Arm.named_variant,
                                       Routine.kind = "struct", Arm.fields[idx]))
    /\ UNCHANGED <<decl, plan, cur, env, source, scope>>

\* the construction expression, and the return
Construct ==
    /\ pc = "fields"
    /\ idx > Len(Arm.fields)
    /\ result' = IF Routine.fallible
                 THEN Ok(Constructed(Routine, Arm, built))
                 ELSE <<"Ret", Constructed(Routine, Arm, built)>>
    /\ log' = Append(log, <<"construct">>)
    /\ pc' = "done"
    /\ UNCHANGED <<decl, plan, cur, env, source, scope, idx, built>>

\* the value t has a field of this name, holding a value a conversion can read
Readable(t, name) ==
    /\ name \in DOMAIN t.fields
    /\ t.fields[name] \notin {DefaultValue, FuncValue}

\* user code passes the value T::from(x) returned to S::try_from
CallBack ==
    /\ pc = "done"
    /\ result[1] = "Ret"
    /\ Len(Calls) = 1
    /\ Routine.kind = "struct"
    /\ Routine.meta.method = "Into"
    /\ \E j \in 1..Len(plan[2]) :
          /\ plan[2][j].meta.method = "TryFrom"
          /\ plan[2][j].meta.source_name = result[2].type
          /\ \A i \in 1..Len(Reads(plan[2][j].arms[1])) :
                Readable(result[2], to_tokens(Reads(plan[2][j].arms[1])[i].source_name))
          /\ Start(j, result[2])

Next ==
    \/ Derive
    \/ Call
    \/ Validate
    \/ Dispatch
    \/ ConvertFieldStep
    \/ Construct
    \/ CallBack

Spec == Init /\ [][Next]_vars

\* the macro alone, on fields that carry directives at several scopes
InitNorm ==
    /\ decl \in ScopedDecls
    /\ env = QuietEnv
    /\ plan = None
    /\ cur = 0
    /\ source = None
    /\ scope = NoScope
    /\ pc = "derive"
    /\ idx = 1
    /\ built = <<>>
    /\ result = None
    /\ log = <<>>

SpecNorm == InitNorm /\ [][Derive]_vars

\* the macro alone, on fields that carry entries of several directions or any
\* combination of directives
InitPlan ==
    /\ decl \in CrossDecls \cup FlagDecls
    /\ env = QuietEnv
    /\ plan = None
    /\ cur = 0
    /\ source = None
    /\ scope = NoScope
    /\ pc = "derive"
    /\ idx = 1
    /\ built = <<>>
    /\ result = None
    /\ log = <<>>

SpecPlan == InitPlan /\ [][Derive]_vars

\* the macro alone, on a field of any declared type
InitTypes ==
    /\ decl \in TypeDecls
    /\ env = QuietEnv
    /\ plan = None
    /\ cur = 0
    /\ source = None
    /\ scope = NoScope
    /\ pc = "derive"
    /\ idx = 1
    /\ built = <<>>
    /\ result = None
    /\ log = <<>>

SpecTypes == InitTypes /\ [][Derive]_vars

\* every arm of the strategy tree over the trees of T; the keys of a mapping
\* are plain values
Arms(T) ==
    {Plain}
      \cup {OptionM(t) : t \in T} \cup {IteratorM(t) : t \in T}
      \cup {HashMapM(Plain, t) : t \in T}
      \cup {UnwrapOption(t) : t \in T} \cup {UnwrapOrDefault(t) : t \in T}
      \cup {SomeOption(t) : t \in T}

\* the strategy trees of two layers at most, any arm below any arm
Trees == Arms(Arms({Plain}))

\* the tree has a HashMap node
RECURSIVE HasMap(_)
HasMap(method) ==
    method[1] = "HashMap" \/ \E i \in 2..Len(method) : HasMap(method[i])

\* a fallible routine of one field whose statement is synthesized from the
\* tree method: the expressions are emitted for any FieldConversionMethod
ExprRoutine(method) ==
    [derive_into(StructDecl(Single("TryInto", FALSE, None), TRUE,
                            <<Bare(Some("items"), U32)>>))[2][1]
        EXCEPT !.arms[1].fields[1].method = method]

\* user conversions that agree with each other, and some that fail
ExprEnvs(method) ==
    {[QuietEnv EXCEPT !.into = c[1], !.try_into = c[2], !.hash_order = o] :
        c \in {<<Identity, Accept(Identity)>>, <<Rotate, Accept(Rotate)>>,
               <<Collapse, Accept(Collapse)>>, <<Identity, RejectAt(Identity, 0)>>},
        o \in IF HasMap(method) THEN KeyOrders ELSE {AscendingKeys}}

\* the expressions of fallible_expr and infallible_expr for any strategy tree,
\* evaluated on any value the tree can be given
InitExpr ==
    /\ decl = StructDecl(Single("TryInto", FALSE, None), TRUE, <<Bare(Some("items"), U32)>>)
    /\ \E method \in Trees :
          /\ plan = Ok(<<ExprRoutine(method)>>)
          /\ env \in ExprEnvs(method)
    /\ cur = 0
    /\ source = None
    /\ scope = NoScope
    /\ pc = "ready"
    /\ idx = 1
    /\ built = <<>>
    /\ result = None
    /\ log = <<>>

SpecExpr == InitExpr /\ [][Call \/ ConvertFieldStep \/ Construct]_vars

\* the fallible routines of a container field, with user conversions that
\* fail on some or on all of the plain values
InitFail ==
    /\ decl \in FailDecls
    /\ env \in {[QuietEnv EXCEPT !.try_into = t, !.hash_order = o] :
                  t \in {RejectAll, RejectAt(Identity, 0), RejectAt(Identity, MaxLeaf),
                         Accept(Rotate)},
                  o \in KeyOrders}
    /\ plan = None
    /\ cur = 0
    /\ source = None
    /\ scope = NoScope
    /\ pc = "derive"
    /\ idx = 1
    /\ built = <<>>
    /\ result = None
    /\ log = <<>>

SpecFail == InitFail /\ [][Derive \/ Call \/ ConvertFieldStep \/ Construct]_vars

(***************************************************************************)
(* Properties of the generated routines.                                   *)
(***************************************************************************)
\* the k-th field statement of the running arm, the place it reads, the value
\* found there
FieldAt(k) == Arm.fields[k]
PlaceAt(k) ==
    IF Routine.kind = "struct" THEN "source." \o to_tokens(FieldAt(k).source_name)
    ELSE as_named(FieldAt(k).source_name)
ReadAt(k) == scope.vals[PlaceAt(k)]

\* the statement is synthesized from the field's strategy
Synthesized(k) == ~FieldAt(k).default /\ ~IsSome(FieldAt(k).conversion_func)

\* the key of the k-th target field in the constructed value
TargetKey(k) ==
    IF Arm.named_variant THEN to_tokens(FieldAt(k).target_name) ELSE Digit(k - 1)

\* the routine stopped in its field statement idx
StoppedAtField ==
    /\ pc = "done"
    /\ scope.arm # 0
    /\ idx <= Len(Arm.fields)
    /\ Len(log) > 0
    /\ log[Len(log)] = <<"field", idx>>

\* what the running routine makes of the value v under a strategy
Converted(v, method) ==
    IF Routine.fallible THEN fallible_expr(v, method)[2] ELSE infallible_expr(v, method)

\* the entries the running call has logged
CallLog ==
    SubSeq(log,
           1 + CHOOSE i \in 1..Len(log) :
                  log[i][1] = "call" /\ \A j \in (i + 1)..Len(log) : log[j][1] # "call",
           Len(log))

\* the text part occurs in text
Contains(text, part) ==
    \E i \in 1..(Len(text) - Len(part) + 1) : SubSeq(text, i, i + Len(part) - 1) = part

\* strategies made of Plain, Option, Vec and HashMap only
RECURSIVE Containers(_)
Containers(method) ==
    CASE method[1] = "Plain" -> TRUE
      [] method[1] \in {"Option", "Iterator"} -> Containers(method[2])
      [] method[1] = "HashMap" -> Containers(method[2]) /\ Containers(method[3])
      [] OTHER -> FALSE

\* strategies made of Plain, Option and Vec only
RECURSIVE OptionsAndVecs(_)
OptionsAndVecs(method) ==
    CASE method[1] = "Plain" -> TRUE
      [] method[1] \in {"Option", "Iterator"} -> OptionsAndVecs(method[2])
      [] OTHER -> FALSE

\* the value v with every plain value a replaced by f[a], nothing else changed
RECURSIVE MapLeaves(_, _)
MapLeaves(v, f) ==
    CASE v[1] = "L" -> L(f[v[2]])
      [] v[1] = "Some" -> Some(MapLeaves(v[2], f))
      [] v[1] = "Vec" -> Vec([i \in 1..Len(v[2]) |-> MapLeaves(v[2][i], f)])
      [] OTHER -> v

\* the leaf conversions are inverse to each other
Lossless == \A x \in Leaf : env.try_into[env.into[x]] = Ok(x)

\* every field of the declaration is converted by a container strategy
ContainersOnly(routine) ==
    /\ Len(routine.arms[1].fields) = Len(decl.fields)
    /\ \A k \in 1..Len(routine.arms[1].fields) :
          /\ ~routine.arms[1].fields[k].default
          /\ ~IsSome(routine.arms[1].fields[k].conversion_func)
          /\ Containers(routine.arms[1].fields[k].method)

ShapeFidelity ==
    (pc \in {"fields", "done"} /\ ~Routine.fallible) =>
        \A k \in 1..Len(built) :
            (Synthesized(k) /\ OptionsAndVecs(FieldAt(k).method)) =>
                /\ built[k][2] = MapLeaves(ReadAt(k), env.into)
                /\ result[1] = "Ret" =>
                      result[2].fields[TargetKey(k)] = MapLeaves(ReadAt(k), env.into)

ShapeFidelityWitness ==
    /\ pc = "done"
    /\ ~Routine.fallible
    /\ result[1] = "Ret"
    /\ Len(built) = 1
    /\ FieldAt(1).method = OptionM(IteratorM(Plain))
    /\ env.into = Rotate
    /\ ReadAt(1) = Some(Vec(<<L(0), L(1)>>))
    /\ result[2].fields["items"] = Some(Vec(<<L(1), L(0)>>))

\* a field read by a HashMap strategy, bare or inside an Option
IsMapField(method) ==
    method[1] = "HashMap" \/ (method[1] = "Option" /\ method[2][1] = "HashMap")
MapMethod(method) == IF method[1] = "HashMap" THEN method ELSE method[2]
Inner(v) == IF v[1] = "Some" THEN v[2] ELSE v

\* the last key of f, in the order the map is iterated, that converts to c
LastKey(f, key_method, c) ==
    IterKeys(f)[CHOOSE i \in 1..Len(IterKeys(f)) :
                  /\ Converted(IterKeys(f)[i], key_method) = c
                  /\ \A j \in (i + 1)..Len(IterKeys(f)) :
                        Converted(IterKeys(f)[j], key_method) # c]

\* the map g holds the converted entries of f and nothing else
HoldsConverted(f, g, method) ==
    /\ DOMAIN g = {Converted(k, method[2]) : k \in DOMAIN f}
    /\ (\A k1, k2 \in DOMAIN f : k1 # k2 => Converted(k1, method[2]) # Converted(k2, method[2]))
         => /\ Cardinality(DOMAIN g) = Cardinality(DOMAIN f)
            /\ \A k \in DOMAIN f : g[Converted(k, method[2])] = Converted(f[k], method[3])
    /\ \A c \in DOMAIN g : g[c] = Converted(f[LastKey(f, method[2], c)], method[3])

\* C3: a HashMap field, bare or inside an Option, is converted entry by entry:
\* the target holds (convert(k), convert(v)) for the source entries and nothing
\* else, as many entries as the source when the converted keys are distinct,
\* and for keys that collide the entry inserted last.
MappingConversion ==
    (pc \in {"fields", "done"}) =>
        \A k \in 1..Len(built) :
            (Synthesized(k) /\ IsMapField(FieldAt(k).method) /\ ReadAt(k) # None) =>
                HoldsConverted(Inner(ReadAt(k))[2], Inner(built[k][2])[2],
                               MapMethod(FieldAt(k).method))

MappingConversionWitness ==
    /\ pc = "done"
    /\ ~Routine.fallible
    /\ result[1] = "Ret"
    /\ Len(built) = 1
    /\ FieldAt(1).method = HashMapM(Plain, IteratorM(Plain))
    /\ env.into = Collapse
    /\ env.hash_order[1] = L(1)
    /\ ReadAt(1) = Map((L(0) :> Vec(<<>>)) @@ (L(1) :> Vec(<<L(0)>>)))
    /\ result[2].fields["items"] = Map(L(0) :> Vec(<<>>))

\* the statements of the running arm, and what the body returns
Statements ==
    [k \in 1..Len(Arm.fields) |->
        build_field_conversion(Routine.meta, Arm.named_variant, Routine.kind = "struct",
                               Arm.fields[k])]
BodyResult ==
    IF FirstIndex(Statements, LAMBDA r : IsErr(r[3])) # 0
    THEN Statements[FirstIndex(Statements, LAMBDA r : IsErr(r[3]))][3]
    ELSE Ok(Constructed(Routine, Arm,
                        [k \in 1..Len(Arm.fields) |->
                            <<Statements[k][2], Statements[k][3][2]>>]))

\* C4: a routine with a validation hook is fallible and calls the hook first,
\* once, on the source; when the hook fails the routine returns "Failed trying
\* to convert {Source} to {Target}: {e}" with no field converted, no variant
\* matched and nothing constructed; when it passes the routine returns what its
\* body returns.
ValidationGating ==
    (cur # 0 /\ IsSome(Routine.validate_call)) =>
        /\ Routine.fallible
        /\ pc = "validate" => CallLog = <<>>
        /\ pc # "validate" =>
              /\ Len(CallLog) >= 1
              /\ CallLog[1] = <<"validate", source>>
              /\ \A i \in 2..Len(CallLog) : CallLog[i][1] # "validate"
        /\ (pc = "done" /\ IsErr(env.validate)) =>
              /\ result = Err("Failed trying to convert " \o Routine.meta.source_name
                                \o " to " \o Routine.meta.target_name
                                \o ": " \o env.validate[2])
              /\ Len(CallLog) = 1
              /\ built = <<>>
        /\ (pc = "done" /\ IsOk(env.validate)) => result = BodyResult

ValidationGatingWitness ==
    /\ pc = "done"
    /\ IsSome(Routine.validate_call)
    /\ Routine.kind = "enum"
    /\ IsErr(env.validate)
    /\ source.variant = Some("B")
    /\ result = Err("Failed trying to convert Own to Other: invalid")

\* the field statement k unwraps an Option that is empty
UnwrapsNone(k) ==
    /\ Synthesized(k)
    /\ FieldAt(k).method[1] = "UnwrapOption"
    /\ ReadAt(k) = None

\* C5: in a fallible routine a field under unwrap whose Option is empty is
\* never converted; the routine returns a failure whose text carries the name
\* of the field and of the target type.
UnwrapFailure ==
    (pc \in {"fields", "done"} /\ Routine.fallible /\ scope.arm # 0) =>
        /\ \A k \in 1..Len(built) : ~UnwrapsNone(k)
        /\ (StoppedAtField /\ UnwrapsNone(idx)) =>
              /\ result = Err("Failed trying to convert source."
                                \o to_tokens(FieldAt(idx).source_name) \o " to "
                                \o Routine.meta.target_name \o ": Expected value to exist")
              /\ Contains(result[2], to_tokens(FieldAt(idx).source_name))
              /\ Contains(result[2], Routine.meta.target_name)

UnwrapFailureWitness ==
    /\ StoppedAtField
    /\ Routine.meta.method = "TryInto"
    /\ UnwrapsNone(idx)
    /\ result = Err("Failed trying to convert source.items to Other: Expected value to exist")

\* C6: in an infallible routine a field under unwrap whose Option is empty
\* panics with a message that names the field; a field whose Option holds a
\* value is converted by the inner strategy.
InfallibleUnwrapNamesField ==
    (pc \in {"fields", "done"} /\ ~Routine.fallible) =>
        /\ \A k \in 1..Len(built) :
              (Synthesized(k) /\ FieldAt(k).method[1] = "UnwrapOption") =>
                  /\ ReadAt(k) # None
                  /\ built[k][2] = infallible_expr(ReadAt(k)[2], FieldAt(k).method[2])
        /\ (StoppedAtField /\ UnwrapsNone(idx)) =>
              /\ IsPanic(result)
              /\ Contains(result[2], to_tokens(FieldAt(idx).source_name))

\* the zero value of the type an inner strategy reads
Zero(inner) ==
    CASE inner[1] = "Plain" -> L(0)
      [] inner[1] = "Iterator" -> Vec(<<>>)
      [] inner[1] = "HashMap" -> Map(EmptyMap)
      [] OTHER -> None

\* the value the inner strategy of an unwrap_or_default field is given
Defaulted(k) == IF ReadAt(k) = None THEN Zero(FieldAt(k).method[2]) ELSE ReadAt(k)[2]

\* C7: a field under unwrap_or_default is converted by the inner strategy,
\* applied to the zero value of the contained type when the Option is empty and
\* to the contained value otherwise, in both forms; the empty Option is never a
\* failure of its own: the infallible form does not stop there, the fallible
\* form stops there only with the failure of the inner strategy.
UnwrapOrDefaultApplied ==
    (pc \in {"fields", "done"} /\ scope.arm # 0) =>
        /\ \A k \in 1..Len(built) :
              (Synthesized(k) /\ FieldAt(k).method[1] = "UnwrapOrDefault") =>
                  built[k][2] = Converted(Defaulted(k), FieldAt(k).method[2])
        /\ (/\ StoppedAtField
            /\ Synthesized(idx)
            /\ FieldAt(idx).method[1] = "UnwrapOrDefault") =>
              /\ Routine.fallible
              /\ IsErr(fallible_expr(Defaulted(idx), FieldAt(idx).method[2]))
              /\ result = Err("Failed trying to convert " \o PlaceAt(idx) \o " to "
                                \o Routine.meta.target_name \o ": "
                                \o fallible_expr(Defaulted(idx), FieldAt(idx).method[2])[2])

UnwrapOrDefaultWitness ==
    /\ pc = "done"
    /\ ~Routine.fallible
    /\ result[1] = "Ret"
    /\ Len(built) = 1
    /\ FieldAt(1).method = UnwrapOrDefault(Plain)
    /\ ReadAt(1) = None
    /\ env.into = Rotate
    /\ result[2].fields["items"] = L(1)

\* the failure text, for the text of the place read and of the error
Failed(place, error) ==
    "Failed trying to convert " \o place \o " to " \o Routine.meta.target_name
      \o ": " \o error

\* the hook made the routine return
StoppedAtHook ==
    /\ pc = "done"
    /\ IsErr(result)
    /\ log[Len(log)][1] = "validate"

\* C8 as stated: every failure a fallible routine returns is "Failed trying to
\* convert {source_field_or_type} to {target_type}: {underlying_error}" with the
\* underlying error's own text.
FailureTextOwnError ==
    (pc = "done" /\ IsErr(result)) =>
        IF StoppedAtHook THEN result[2] = Failed(Routine.meta.source_name, env.validate[2])
        ELSE IF IsSome(FieldAt(idx).conversion_func)
        THEN result[2] = Failed(PlaceAt(idx), env.with_func[2])
        ELSE IF UnwrapsNone(idx)
        THEN result[2] = Failed(PlaceAt(idx), "Expected value to exist")
        ELSE \E n \in Leaf : /\ IsErr(env.try_into[n])
                             /\ result[2] = Failed(PlaceAt(idx), env.try_into[n][2])

\* C8: every failure a fallible routine returns is "Failed trying to convert
\* {source_field_or_type} to {target_type}: {underlying_error}", where the
\* underlying error is rendered with Display for the validation hook, is the
\* text "Expected value to exist" for an empty Option under unwrap, and is
\* rendered with Debug (a String in double quotes) for a custom function and
\* for a plain or element conversion.
FailureTextRendered ==
    (pc = "done" /\ IsErr(result)) =>
        IF StoppedAtHook THEN result[2] = Failed(Routine.meta.source_name, env.validate[2])
        ELSE IF IsSome(FieldAt(idx).conversion_func)
        THEN result[2] = Failed(PlaceAt(idx), "\"" \o env.with_func[2] \o "\"")
        ELSE IF UnwrapsNone(idx)
        THEN result[2] = Failed(PlaceAt(idx), "Expected value to exist")
        ELSE \E n \in Leaf : /\ IsErr(env.try_into[n])
                             /\ result[2] = Failed(PlaceAt(idx),
                                                   "\"" \o env.try_into[n][2] \o "\"")

FailureTextWitness ==
    /\ StoppedAtField
    /\ FieldAt(idx).method = IteratorM(Plain)
    /\ result = Err("Failed trying to convert source.items to Other: \"bad0\"")

(***************************************************************************)
(* Properties of the plan of a field that carries directives at several    *)
(* scopes (one field, one conversion with Other).                          *)
(***************************************************************************)
TheField == decl.fields[1]
TheMeta == extract_conversions(decl)[2][1]
TheEntries == scoped_attrs(TheField, TheMeta.method)
Exact == SelectSeq(TheEntries, LAMBDA e : e.path = Some("Other"))
Kindwide == SelectSeq(TheEntries, LAMBDA e : e.path = None)
TheEntry == (Exact \o Kindwide)[1]
Planned == plan[2][1].arms[1].fields

\* the name the planned field has on the other type
OtherName(f) == IF is_from(TheMeta.method) THEN f.source_name ELSE f.target_name

\* C9: when one entry of the plan's direction matches the field, each of
\* unwrap, unwrap_or_default, default, rename and the custom function that the
\* entry leaves unset takes the value of the field's unscoped directive.
FallThrough ==
    (pc = "ready" /\ Len(Exact) + Len(Kindwide) = 1 /\ Len(Planned) = 1) =>
        /\ ~TheEntry.default => Planned[1].default = TheField.default
        /\ (~TheEntry.unwrap /\ ~TheEntry.unwrap_or_default) =>
              Ok(Planned[1].method) =
                  decide_field_method(TheField.ty, is_from(TheMeta.method),
                                      TheField.unwrap, TheField.unwrap_or_default)
        /\ ~IsSome(TheEntry.rename) =>
              OtherName(Planned[1]) =
                  (IF IsSome(TheField.rename) THEN Named(TheField.rename[2])
                   ELSE Named(TheField.ident[2]))
        /\ ~IsSome(TheEntry.with_func) => Planned[1].conversion_func = TheField.with_func

\* the plan takes the directives that e sets
ResolvesTo(e) ==
    IF e.skip \/ TheField.skip THEN Len(Planned) = 0
    ELSE /\ Len(Planned) = 1
         /\ IsSome(e.rename) => OtherName(Planned[1]) = Named(e.rename[2])
         /\ IsSome(e.with_func) => Planned[1].conversion_func = e.with_func
         /\ e.default => Planned[1].default
         /\ e.unwrap => Planned[1].method[1] \in {"UnwrapOption", "SomeOption"}
         /\ e.unwrap_or_default => Planned[1].method[1] \in {"UnwrapOrDefault", "SomeOption"}

\* C10 as stated: a field that carries an entry for the other type's path and
\* an entry with no path, both of the plan's direction, resolves to the entry
\* with the path.
MostSpecificWins ==
    (plan # None /\ Len(Exact) = 1 /\ Len(Kindwide) = 1) =>
        IsOk(plan) /\ ResolvesTo(Exact[1])

\* C10: the entries of the plan's direction that match are those with the
\* other type's path and those with no path.  One matching entry, of either
\* sort, is taken before the field's unscoped directives; with no matching
\* entry the unscoped directives are taken; two or more matching entries, an
\* entry with the path beside an entry with no path included, are the error
\* "Expected exactly one conversion attribute for field".
ScopePrecedence ==
    plan # None =>
        /\ Len(Exact) + Len(Kindwide) >= 2 =>
              /\ IsErr(plan)
              /\ plan[2].msg = "Expected exactly one conversion attribute for field"
        /\ Len(Exact) + Len(Kindwide) = 1 => IsOk(plan) /\ ResolvesTo(TheEntry)
        /\ Len(Exact) + Len(Kindwide) = 0 => IsOk(plan) /\ ResolvesTo(TheField)

ScopePrecedenceWitness ==
    /\ plan # None
    /\ Len(Exact) = 1
    /\ Len(Kindwide) = 1
    /\ IsSome(Exact[1].rename)
    /\ IsErr(plan)

(***************************************************************************)
(* Properties of the plan of one field under any directives.               *)
(***************************************************************************)
\* the entries written on the field for the plan's direction
Written ==
    TheField[[Into |-> "into", TryInto |-> "try_into", From |-> "from",
              TryFrom |-> "try_from"][TheMeta.method]]
WrittenFor(path) == SelectSeq(Written, LAMBDA e : e.path = path)

\* the declaration without the entries of other directions and without the
\* entries written for another path
Pruned ==
    StructDecl(decl.attrs, decl.named,
        <<Scoped([TheField EXCEPT !.from = <<>>, !.try_from = <<>>,
                                   !.into = <<>>, !.try_into = <<>>],
                 TheMeta.method,
                 WrittenFor(Some("Other")) \o WrittenFor(None))>>)

TooManyEntries ==
    /\ IsErr(plan)
    /\ plan[2].msg = "Expected exactly one conversion attribute for field"

\* C11: two or more entries of the plan's direction written for the other
\* type's path are a generation error located at the field; the entries of
\* other directions and the entries written for another path are ignored (the
\* plan is the plan of the declaration without them) and never cause the error.
DuplicatePath ==
    plan # None =>
        /\ Len(WrittenFor(Some("Other"))) >= 2 =>
              /\ TooManyEntries
              /\ plan[2].span = "field"
              /\ plan[2].field = 0
        /\ plan = derive_into(Pruned)
        /\ TooManyEntries => Len(WrittenFor(Some("Other"))) + Len(WrittenFor(None)) >= 2

DuplicatePathWitness ==
    /\ plan # None
    /\ Len(WrittenFor(Some("Other"))) = 2
    /\ Len(TheField.into) + Len(TheField.try_into) + Len(TheField.from)
          + Len(TheField.try_from) = 4
    /\ TooManyEntries
    /\ plan[2].field = 0

\* the field's unscoped directive or its one matching entry requests skip
SkipRequested ==
    \/ TheField.skip
    \/ (Len(Exact) + Len(Kindwide) = 1 /\ TheEntry.skip)

\* C12: in a plan that is generated, the field is left out if and only if its
\* unscoped directive or its matching entry requests skip; a field left out
\* gives no ConvertibleField, so the routine has no statement for it, and every
\* ConvertibleField of the plan has skip = FALSE.
SkipRule ==
    (pc = "ready") =>
        /\ SkipRequested <=> Len(Planned) = 0
        /\ ~SkipRequested <=> (Len(Planned) = 1 /\ OtherName(Planned[1])[1] = "Named")
        /\ \A k \in 1..Len(Planned) : Planned[k].skip = FALSE
        /\ Len(plan[2]) = 1

SkipRuleWitness ==
    /\ pc = "ready"
    /\ TheField.rename = Some("toAll")
    /\ Len(Exact) = 1
    /\ TheEntry.skip
    /\ Len(Planned) = 0

\* the directives in effect for the field: those of its one matching entry,
\* else its unscoped ones; skip from either
Matching == WrittenFor(Some("Other")) \o WrittenFor(None)
InEffect == IF Len(Matching) = 1 THEN Matching[1] ELSE TheField
Skipped == TheField.skip \/ (Len(Matching) = 1 /\ Matching[1].skip)
FuncInEffect ==
    IF Len(Matching) = 1 /\ IsSome(Matching[1].with_func) THEN Matching[1].with_func
    ELSE TheField.with_func

\* C13: a field that is not skipped and has both unwrap and unwrap_or_default
\* in effect makes generation fail with "Cannot use both unwrap and
\* unwrap_or_default", whatever its type, the direction, and whether default or
\* a custom function is set on it; no plan holds a ConvertibleField for it.
MutualExclusion ==
    (plan # None /\ Len(Matching) <= 1 /\ ~Skipped
       /\ InEffect.unwrap /\ InEffect.unwrap_or_default) =>
        /\ IsErr(plan)
        /\ plan[2].msg = "Cannot use both unwrap and unwrap_or_default"
        /\ plan[2].field = 0

MutualExclusionWitness ==
    /\ plan # None
    /\ TheMeta.method = "From"
    /\ TheField.ty = VecOf(U32)
    /\ Len(Matching) = 1
    /\ InEffect.unwrap /\ InEffect.unwrap_or_default /\ InEffect.default
    /\ IsSome(FuncInEffect)
    /\ ~Skipped
    /\ IsErr(plan)
    /\ plan[2].msg = "Cannot use both unwrap and unwrap_or_default"

\* the strategy of each field type, written out
StrategyOf(ty) ==
    CASE ty = U32 -> <<"Plain">>
      [] ty = OptionOf(U32) -> <<"Option", <<"Plain">>>>
      [] ty = VecOf(U32) -> <<"Iterator", <<"Plain">>>>
      [] ty = HashMapOf(U32, U32) -> <<"HashMap", <<"Plain">>, <<"Plain">>>>
      [] ty = OptionOf(VecOf(U32)) -> <<"Option", <<"Iterator", <<"Plain">>>>>>
      [] ty = VecOf(OptionOf(U32)) -> <<"Iterator", <<"Option", <<"Plain">>>>>>
      [] ty = VecOf(VecOf(U32)) -> <<"Iterator", <<"Iterator", <<"Plain">>>>>>
      [] ty = OptionOf(HashMapOf(U32, U32)) ->
            <<"Option", <<"HashMap", <<"Plain">>, <<"Plain">>>>>>
      [] ty = OptionOf(OptionOf(U32)) -> <<"Option", <<"Option", <<"Plain">>>>>>
      [] ty = HashMapOf(U32, VecOf(U32)) ->
            <<"HashMap", <<"Plain">>, <<"Iterator", <<"Plain">>>>>>

OutermostOption(ty) == ty.path = <<"Option">>
WrapName == IF InEffect.unwrap THEN "UnwrapOption" ELSE "UnwrapOrDefault"

\* the plan holds the field with this strategy
PlannedWith(method) ==
    /\ IsOk(plan)
    /\ Len(Planned) = 1
    /\ Planned[1].method = method

\* C14: with exactly one of unwrap / unwrap_or_default in effect: a type that
\* is not an Option is an error in a non-From direction and is wrapped whole in
\* UnwrapOption / UnwrapOrDefault in a From direction; Option<I> gives
\* UnwrapOption / UnwrapOrDefault around the strategy of I in a non-From
\* direction and SomeOption around the strategy of I in a From direction.  With
\* neither in effect the strategy is that of the declared type.
DecisionTable ==
    (/\ plan # None
     /\ Len(Matching) <= 1
     /\ ~Skipped
     /\ ~(InEffect.unwrap /\ InEffect.unwrap_or_default)) =>
        IF ~InEffect.unwrap /\ ~InEffect.unwrap_or_default
        THEN PlannedWith(StrategyOf(TheField.ty))
        ELSE IF ~OutermostOption(TheField.ty)
        THEN IF TheMeta.method \in {"Into", "TryInto"}
             THEN IsErr(plan) /\ plan[2].msg = "Cannot unwrap non-Option field"
             ELSE PlannedWith(<<WrapName, StrategyOf(TheField.ty)>>)
        ELSE IF TheMeta.method \in {"Into", "TryInto"}
             THEN PlannedWith(<<WrapName, StrategyOf(TheField.ty)[2]>>)
             ELSE PlannedWith(<<"SomeOption", StrategyOf(TheField.ty)[2]>>)

DecisionTableWitness ==
    /\ TheMeta.method = "TryInto"
    /\ TheField.ty = OptionOf(HashMapOf(U32, U32))
    /\ InEffect.unwrap_or_default
    /\ ~InEffect.unwrap
    /\ PlannedWith(<<"UnwrapOrDefault", <<"HashMap", <<"Plain">>, <<"Plain">>>>>>)

\* the resolver rejects the flags in effect for the declared type
ResolverRejects ==
    \/ InEffect.unwrap /\ InEffect.unwrap_or_default
    \/ /\ InEffect.unwrap \/ InEffect.unwrap_or_default
       /\ ~OutermostOption(TheField.ty)
       /\ TheMeta.method \in {"Into", "TryInto"}

\* the statement emitted for the planned field is the call of the function
CallsFunc ==
    /\ Len(Planned) = 1
    /\ Planned[1].conversion_func = FuncInEffect
    /\ build_field_conversion(plan[2][1].meta, TRUE, TRUE, Planned[1])
          = <<"Field", Some("items"),
              IF plan[2][1].fallible THEN <<"Ok", <<"Func">>>> ELSE <<"Func">>>>

\* C16 as stated: a field with a custom function is generated whatever its
\* type and its unwrap / unwrap_or_default flags, and its statement is the call
\* of the function.
FuncBypassesResolver ==
    (/\ plan # None
     /\ Len(Matching) <= 1
     /\ ~Skipped
     /\ ~InEffect.default
     /\ IsSome(FuncInEffect)) =>
        IsOk(plan) /\ CallsFunc

\* C16: for a field with a custom function (not skipped, default not in
\* effect) the statement emitted is the call of the function on the source,
\* whatever the declared type and the flags; the resolver is consulted all the
\* same: generation fails exactly when it rejects the flags in effect for the
\* declared type.
FuncAfterResolver ==
    (/\ plan # None
     /\ Len(Matching) <= 1
     /\ ~Skipped
     /\ ~InEffect.default
     /\ IsSome(FuncInEffect)) =>
        /\ ResolverRejects <=> IsErr(plan)
        /\ IsErr(plan) => plan[2].msg \in {"Cannot use both unwrap and unwrap_or_default",
                                            "Cannot unwrap non-Option field"}
        /\ IsOk(plan) => CallsFunc

FuncAfterResolverWitness ==
    /\ plan # None
    /\ TheField.ty = U32
    /\ TheMeta.method = "Into"
    /\ Len(Matching) = 1
    /\ IsSome(FuncInEffect)
    /\ InEffect.unwrap
    /\ ~InEffect.unwrap_or_default /\ ~InEffect.default /\ ~Skipped
    /\ IsErr(plan)
    /\ plan[2].msg = "Cannot unwrap non-Option field"

(***************************************************************************)
(* Properties of the order of the emitted statements.                      *)
(***************************************************************************)
\* the fields of the running struct routine in the order they are declared,
\* the statements emitted from that list and the values they yield
DeclaredOrder ==
    convert_fields_from(decl.fields, 1, <<>>, Routine.meta.method, other_type(Routine.meta))[2]
DeclaredStatement(k) ==
    build_field_conversion(Routine.meta, Arm.named_variant, TRUE, DeclaredOrder[k])
DeclaredParts ==
    [k \in 1..Len(DeclaredOrder) |->
        <<DeclaredStatement(k)[2],
          IF Routine.fallible THEN DeclaredStatement(k)[3][2] ELSE DeclaredStatement(k)[3]>>]

\* C15: the target a struct routine returns is the target that the statements
\* emitted in declaration order build, for named and for positional targets.
OrderNeutral ==
    (pc = "done" /\ Routine.kind = "struct" /\ result[1] \in {"Ret", "Ok"}) =>
        result[2] = Constructed(Routine, [Arm EXCEPT !.fields = DeclaredOrder], DeclaredParts)

(***************************************************************************)
(* Properties of the generation of all the conversions of a declaration.   *)
(***************************************************************************)
\* the conversions declared, and what generating conversion i alone gives
Declared == metas_of(decl.ident, decl.attrs)
Alone(i) == try_convert_derive(decl, Declared[i])
Failing == {i \in 1..Len(Declared) : IsErr(Alone(i))}
FirstFailing == CHOOSE i \in Failing : \A j \in Failing : i <= j

\* C17 as stated: when a declared conversion is rejected with a configuration
\* error, the routines of the sibling conversions that are fine are generated.
SiblingsSurvive ==
    (plan # None /\ ~IsPanic(plan)) =>
        \A i \in 1..Len(Declared) :
            IsOk(Alone(i)) =>
                /\ IsOk(plan)
                /\ \E j \in 1..Len(plan[2]) : plan[2][j] = Alone(i)[2]

\* C17: a configuration error of one declared conversion rejects the whole
\* derive: the error reported is that of the first rejected conversion, in the
\* order into, try_into, from, try_from, and no routine is emitted, the
\* siblings' included; with no rejected conversion every declared conversion
\* has its routine, in that order.
ConfigErrorAborts ==
    (plan # None /\ ~IsPanic(plan)) =>
        IF Failing # {}
        THEN /\ plan = Alone(FirstFailing)
             /\ pc = "rejected"
             /\ cur = 0
             /\ log = <<>>
        ELSE /\ IsOk(plan)
             /\ Len(plan[2]) = Len(Declared)
             /\ \A i \in 1..Len(Declared) : plan[2][i] = Alone(i)[2]

ConfigErrorAbortsWitness ==
    /\ pc = "rejected"
    /\ Len(Declared) = 2
    /\ IsErr(Alone(1))
    /\ IsOk(Alone(2))
    /\ Alone(2)[2].meta.method = "TryFrom"
    /\ IsErr(plan)
    /\ plan[2].msg = "Cannot unwrap non-Option field"

\* a hook is written on an into or a from conversion
HookOnInfallible ==
    \/ \E i \in 1..Len(decl.attrs.into) : decl.attrs.into[i].validate # None
    \/ \E i \in 1..Len(decl.attrs.from) : decl.attrs.from[i].validate # None

\* the hook written for the conversion of this direction (one at most is
\* declared per direction)
HookWritten(method) ==
    CASE method = "Into" -> decl.attrs.into[1].validate
      [] method = "TryInto" -> decl.attrs.try_into[1].validate
      [] method = "From" -> decl.attrs.from[1].validate
      [] method = "TryFrom" -> decl.attrs.try_from[1].validate

\* C18: a hook on an into or from conversion makes the macro panic in
\* extract_conversions, whatever the fields are (none is examined: no field
\* error is reported instead); a hook on try_into / try_from is carried in the
\* plan and called by the routine; the plan of an infallible conversion has no
\* hook.
HookOnlyFallible ==
    plan # None =>
        /\ HookOnInfallible =>
              /\ plan = <<"Panic",
                          "validate is only supported on fallible conversions (try_from/try_into)">>
              /\ pc = "rejected"
        /\ ~HookOnInfallible => ~IsPanic(plan)
        /\ IsOk(plan) =>
              \A j \in 1..Len(plan[2]) :
                  /\ plan[2][j].meta.method \in {"TryInto", "TryFrom"} =>
                        /\ plan[2][j].meta.validate = HookWritten(plan[2][j].meta.method)
                        /\ plan[2][j].validate_call = HookWritten(plan[2][j].meta.method)
                  /\ plan[2][j].meta.method \in {"Into", "From"} =>
                        /\ plan[2][j].meta.validate = None
                        /\ plan[2][j].validate_call = None

HookOnlyFallibleWitness ==
    /\ IsPanic(plan)
    /\ pc = "rejected"
    /\ Len(decl.attrs.try_into) = 1
    /\ decl.attrs.try_into[1].validate = Some("check")
    /\ decl.attrs.from[1].validate = Some("check")
    /\ decl.fields[1].unwrap /\ decl.fields[1].unwrap_or_default

\* C19: a conversion with default_allowed on a positional struct is rejected
\* with "Default values are not supported for unnamed structs"; a struct
\* routine carries the clause that fills the remaining fields from the default
\* if and only if default_allowed is set and the struct has named fields, and
\* the value it constructs is completed from the default exactly then.
DefaultNeedsNamed ==
    (plan # None /\ ~IsPanic(plan) /\ decl.kind = "struct") =>
        /\ (~decl.named /\ \E i \in 1..Len(Declared) : Declared[i].default_allowed) =>
              /\ IsErr(plan)
              /\ plan[2].msg = "Default values are not supported for unnamed structs"
        /\ IsOk(plan) =>
              \A j \in 1..Len(plan[2]) :
                  plan[2][j].default_fields <=> (Declared[j].default_allowed /\ decl.named)
        /\ (pc = "done" /\ result[1] \in {"Ret", "Ok"}) =>
              result[2].rest <=> (Declared[cur].default_allowed /\ decl.named)

DefaultNeedsNamedWitness ==
    /\ pc = "rejected"
    /\ decl.kind = "struct"
    /\ ~decl.named
    /\ Declared[1].default_allowed
    /\ Declared[1].method = "TryFrom"
    /\ IsErr(plan)
    /\ plan[2].msg = "Default values are not supported for unnamed structs"

(***************************************************************************)
(* Properties of the failures of a mapping field.                          *)
(***************************************************************************)
\* the failure the statement idx returns when the field holds the value v
FailureOf(v) ==
    map_err(fallible_expr(v, FieldAt(idx).method), PlaceAt(idx), Routine.meta.target_name)

\* C20: the failure returned when the conversion of a key fails differs from
\* the failure returned when the conversion of a value fails with the same
\* underlying error.
MapFailuresLabelled ==
    (/\ StoppedAtField
     /\ Routine.fallible
     /\ Synthesized(idx)
     /\ FieldAt(idx).method = HashMapM(Plain, Plain)) =>
        \A bad, good \in Leaf :
            (/\ IsErr(env.try_into[bad])
             /\ IsOk(env.try_into[good])
             /\ ReadAt(idx) = Map(L(bad) :> L(good))) =>
                /\ result = FailureOf(ReadAt(idx))
                /\ result # FailureOf(Map(L(good) :> L(bad)))

(***************************************************************************)
(* Names and directions.                                                   *)
(***************************************************************************)
\* the entries written on field f for the direction of method
EntriesFor(f, method) ==
    [Into |-> f.into, TryInto |-> f.try_into, From |-> f.from, TryFrom |-> f.try_from][method]

\* the renames of the entries of f that are written for the path of the
\* conversion or for no path
ScopedRenames(f, method) ==
    {EntriesFor(f, method)[i].rename[2] :
        i \in {j \in 1..Len(EntriesFor(f, method)) :
                 /\ EntriesFor(f, method)[j].path \in {None, Some("Other")}
                 /\ IsSome(EntriesFor(f, method)[j].rename)}}

\* the name the field f has in the other type
NameInOther(f, method) ==
    IF ScopedRenames(f, method) # {} THEN CHOOSE r \in ScopedRenames(f, method) : TRUE
    ELSE IF IsSome(f.rename) THEN f.rename[2]
    ELSE f.ident[2]

\* the plain value the running routine makes of the plain value v
ConvertedLeaf(v) ==
    IF Routine.fallible THEN L(env.try_into[v[2]][2]) ELSE L(env.into[v[2]])

\* C21: for the struct {id, name} whose field name has the effective rename r
\* (the rename of the matching entry of the direction, else the unscoped
\* rename, else name itself), a returned Into / TryInto routine has read the
\* fields id and name of the source and built a value with the fields id and
\* r, r holding the converted name; a returned From / TryFrom routine has read
\* the fields id and r of the other type and built a value with the fields id
\* and name, name holding the converted r.
RenameDirection ==
    (/\ decl \in RenameDecls
     /\ pc = "done"
     /\ result[1] \in {"Ret", "Ok"}) =>
        LET r == NameInOther(decl.fields[2], Routine.meta.method)
            read == IF is_from(Routine.meta.method) THEN r ELSE "name"
            written == IF is_from(Routine.meta.method) THEN "name" ELSE r
        IN  /\ DOMAIN source.fields = {"id", read}
            /\ DOMAIN result[2].fields = {"id", written}
            /\ result[2].fields[written] = ConvertedLeaf(source.fields[read])
            /\ result[2].fields["id"] = ConvertedLeaf(source.fields["id"])
            /\ source.type = (IF is_from(Routine.meta.method) THEN "Other" ELSE "Own")
            /\ result[2].type = (IF is_from(Routine.meta.method) THEN "Own" ELSE "Other")

RenameDirectionWitness ==
    /\ decl \in RenameDecls
    /\ pc = "done"
    /\ Routine.meta.method = "TryFrom"
    /\ decl.fields[2].rename = Some("full_name")
    /\ decl.fields[2].try_from = <<Entry(Some("Other"), "rename")>>
    /\ env.try_into = Accept(Identity)
    /\ source.fields = Insert(Insert(EmptyMap, "id", L(1)), "toOther", L(0))
    /\ result = Ok([type |-> "Own", variant |-> None, rest |-> FALSE,
                    fields |-> Insert(Insert(EmptyMap, "id", L(1)), "name", L(0))])
(***************************************************************************)
(* Failures inside a sequence or a mapping.                                *)
(***************************************************************************)
\* the sequences seqs[1], ..., seqs[n] one after the other
RECURSIVE Flat(_, _)
Flat(seqs, n) == IF n = 0 THEN <<>> ELSE Flat(seqs, n - 1) \o seqs[n]

\* the conversions a mapping asks for, in turn: each entry in iteration order,
\* its key and then its value
Turns(f, method) ==
    [j \in 1..(2 * Len(IterKeys(f))) |->
        IF j % 2 = 1 THEN <<IterKeys(f)[(j + 1) \div 2], method[2]>>
        ELSE <<f[IterKeys(f)[j \div 2]], method[3]>>]

\* the conversions the field asks for, in turn, as pairs <<value, strategy>>
ElementTurns ==
    IF FieldAt(1).method[1] = "Iterator"
    THEN [j \in 1..Len(ReadAt(1)[2]) |-> <<ReadAt(1)[2][j], FieldAt(1).method[2]>>]
    ELSE Turns(ReadAt(1)[2], FieldAt(1).method)

FirstFailure ==
    FirstIndex(ElementTurns, LAMBDA t : IsErr(fallible_expr(t[1], t[2])))

\* the field statement of the running routine has been evaluated
FieldEvaluated ==
    /\ cur # 0
    /\ scope.arm # 0
    /\ Len(log) > 0
    /\ log[Len(log)] # <<"call", cur, source>>

\* C22: in a fallible routine whose field is a sequence or a mapping, the
\* elements are converted in index order and the entries in iteration order,
\* key before value.  When one of these conversions fails, the routine
\* returns the failure of the first that does, user conversions are called
\* for nothing that comes after it, and no target value is built; when none
\* fails, the field holds the converted elements in order, or a mapping with
\* every converted key.
ShortCircuit ==
    (FieldEvaluated /\ FieldAt(1).method[1] \in {"Iterator", "HashMap"}) =>
        LET turns == ElementTurns
            n == FirstFailure
            calls == [j \in 1..Len(turns) |-> try_into_calls(turns[j][1], turns[j][2])]
        IN  IF n # 0
            THEN /\ StoppedAtField
                 /\ built = <<>>
                 /\ result = map_err(fallible_expr(turns[n][1], turns[n][2]),
                                     PlaceAt(1), Routine.meta.target_name)
                 /\ try_into_calls(ReadAt(1), FieldAt(1).method) = Flat(calls, n)
            ELSE /\ Len(built) = 1
                 /\ try_into_calls(ReadAt(1), FieldAt(1).method) = Flat(calls, Len(turns))
                 /\ IF FieldAt(1).method[1] = "Iterator"
                    THEN built[1][2] =
                            Vec([j \in 1..Len(turns) |->
                                    fallible_expr(turns[j][1], turns[j][2])[2]])
                    ELSE /\ built[1][2][1] = "Map"
                         /\ DOMAIN built[1][2][2] =
                              {fallible_expr(k, FieldAt(1).method[2])[2] :
                                  k \in DOMAIN ReadAt(1)[2]}

\* two elements fail with different errors, and the first one's is returned
ShortCircuitWitness ==
    /\ FieldEvaluated
    /\ env.try_into = RejectAll
    /\ FieldAt(1).method = IteratorM(Plain)
    /\ ReadAt(1) = Vec(<<L(1), L(0), L(1)>>)
    /\ result = FailureOf(Vec(<<L(1)>>))
    /\ result # FailureOf(Vec(<<L(0)>>))
    /\ try_into_calls(ReadAt(1), FieldAt(1).method) = <<1>>
(***************************************************************************)
(* Properties of the strategy tree.                                        *)
(***************************************************************************)
\* the parts of a declared type written as one of the known containers:
\* Option<T> and Vec<T> have one, HashMap<K, V> has two, anything else none
Peels(ty) ==
    IF ty.path \in {<<"Option">>, <<"Vec">>} /\ Len(ty.args) >= 1 THEN <<ty.args[1]>>
    ELSE IF ty.path = <<"HashMap">> /\ Len(ty.args) >= 2 THEN <<ty.args[1], ty.args[2]>>
    ELSE <<>>

NodeFor(ty) ==
    IF Peels(ty) = <<>> THEN "Plain"
    ELSE [Option |-> "Option", Vec |-> "Iterator", HashMap |-> "HashMap"][ty.path[1]]

\* the tree has, layer by layer, the node of the container the type is
\* written with, and a Plain leaf where the type is no known container
RECURSIVE Mirrors(_, _)
Mirrors(method, ty) ==
    /\ method[1] = NodeFor(ty)
    /\ Len(method) = 1 + Len(Peels(ty))
    /\ \A i \in 1..Len(Peels(ty)) : Mirrors(method[i + 1], Peels(ty)[i])

Larger(a, b) == IF a >= b THEN a ELSE b

\* the depth of a strategy tree: the nodes above its deepest leaf
RECURSIVE Depth(_)
Depth(method) ==
    IF Len(method) = 1 THEN 0
    ELSE IF Len(method) = 2 THEN 1 + Depth(method[2])
    ELSE 1 + Larger(Depth(method[2]), Depth(method[3]))

\* the known container layers of a declared type, along its deepest nesting
RECURSIVE Layers(_)
Layers(ty) ==
    IF Len(Peels(ty)) = 0 THEN 0
    ELSE IF Len(Peels(ty)) = 1 THEN 1 + Layers(Peels(ty)[1])
    ELSE 1 + Larger(Layers(Peels(ty)[1]), Layers(Peels(ty)[2]))

\* the declaration is one field with no directive at all
BareField ==
    decl.kind = "struct" /\ decl.fields = <<Bare(Some("items"), decl.fields[1].ty)>>

\* C23: for a field of any declared type of nesting depth up to MaxDepth and
\* no directive, the macro returns a plan, never an error; the strategy of
\* the field mirrors the type layer by layer (Option<Vec<T>> gives
\* Option(Iterator(Plain)), HashMap<K, Vec<V>> gives HashMap(Plain,
\* Iterator(Plain))), its depth is the number of known container layers, and a
\* type that is written as no known container gives a Plain leaf.
ResolverTotal ==
    (BareField /\ pc # "derive") =>
        /\ pc = "ready"
        /\ IsOk(plan)
        /\ Len(Planned) = 1
        /\ Mirrors(Planned[1].method, TheField.ty)
        /\ Depth(Planned[1].method) = Layers(TheField.ty)
        /\ Peels(TheField.ty) = <<>> => Planned[1].method = Plain
        /\ TheField.ty = OptionOf(VecOf(U32)) => Planned[1].method = OptionM(IteratorM(Plain))
        /\ TheField.ty = HashMapOf(U32, VecOf(U32)) =>
              Planned[1].method = HashMapM(Plain, IteratorM(Plain))

ResolverTotalWitness ==
    /\ BareField
    /\ pc = "ready"
    /\ TheField.ty = VecOf(HashMapOf(OptionOf(Qualified(<<"std", "vec", "Vec">>, <<U32>>)), U32))
    /\ Planned[1].method = IteratorM(HashMapM(OptionM(Plain), Plain))
    /\ Depth(Planned[1].method) = 3
\* the nodes that unwrap an Option or wrap a value in Some
Wrappers == {"UnwrapOption", "UnwrapOrDefault", "SomeOption"}

\* no such node anywhere in the tree
RECURSIVE NoWrapper(_)
NoWrapper(method) ==
    /\ method[1] \notin Wrappers
    /\ \A i \in 2..Len(method) : NoWrapper(method[i])

\* the type the subtree of a root wrapper stands for: the contents of the
\* field's Option, or the field's whole type when it is no Option
Wrapped(ty) == IF OutermostOption(ty) THEN ty.args[1] ELSE ty

\* C24: in the strategy tree of every planned field, UnwrapOption,
\* UnwrapOrDefault and SomeOption occur nowhere below the root; the root is
\* one of them exactly when unwrap or unwrap_or_default is in effect for the
\* field; and below the outermost layer the tree mirrors the type, so that an
\* Option nested there is an Option node.
RootOnlyWrappers ==
    (IsOk(plan) /\ Len(Planned) = 1) =>
        /\ Planned[1].method[1] \in Wrappers <=> (InEffect.unwrap \/ InEffect.unwrap_or_default)
        /\ \A i \in 2..Len(Planned[1].method) : NoWrapper(Planned[1].method[i])
        /\ IF Planned[1].method[1] \in Wrappers
           THEN /\ Len(Planned[1].method) = 2
                /\ Mirrors(Planned[1].method[2], Wrapped(TheField.ty))
           ELSE Mirrors(Planned[1].method, TheField.ty)

RootOnlyWrappersWitness ==
    /\ pc = "ready"
    /\ TheMeta.method = "From"
    /\ TheField.ty = VecOf(OptionOf(U32))
    /\ Len(Matching) = 1
    /\ InEffect.unwrap
    /\ PlannedWith(UnwrapOption(IteratorM(OptionM(Plain))))
(***************************************************************************)
(* The fallible and the infallible expression of one strategy.             *)
(***************************************************************************)
\* the fallible leaf conversion returns what the infallible one returns
LeavesAgree == \A x \in Leaf : env.try_into[x] = Ok(env.into[x])

\* evaluating the strategy on v brings an empty Option to an UnwrapOption node
RECURSIVE MeetsNone(_, _)
MeetsNone(v, method) ==
    CASE method[1] = "Plain" -> FALSE
      [] method[1] = "Option" -> v # None /\ MeetsNone(v[2], method[2])
      [] method[1] = "Iterator" -> \E i \in 1..Len(v[2]) : MeetsNone(v[2][i], method[2])
      [] method[1] = "HashMap" ->
            \E k \in DOMAIN v[2] : MeetsNone(k, method[2]) \/ MeetsNone(v[2][k], method[3])
      [] method[1] = "UnwrapOption" -> v = None \/ MeetsNone(v[2], method[2])
      [] method[1] = "UnwrapOrDefault" ->
            MeetsNone(IF v = None THEN DefaultOf(method[2]) ELSE v[2], method[2])
      [] method[1] = "SomeOption" -> MeetsNone(v, method[2])

\* C25: for every strategy tree and every value it can be given, when the
\* fallible leaf conversion returns Ok of what the infallible one returns and
\* no UnwrapOption node meets an empty Option, the expression of
\* fallible_expr evaluates to Ok(v) with v the value of the expression of
\* infallible_expr, and the fallible routine goes on with v as the field.
SynthesisAgrees ==
    (FieldEvaluated /\ LeavesAgree /\ ~MeetsNone(ReadAt(1), FieldAt(1).method)) =>
        /\ ~IsPanic(infallible_expr(ReadAt(1), FieldAt(1).method))
        /\ fallible_expr(ReadAt(1), FieldAt(1).method)
              = Ok(infallible_expr(ReadAt(1), FieldAt(1).method))
        /\ Len(built) = 1
        /\ built[1][2] = infallible_expr(ReadAt(1), FieldAt(1).method)

SynthesisAgreesWitness ==
    /\ FieldEvaluated
    /\ pc = "done"
    /\ env.into = Collapse
    /\ LeavesAgree
    /\ env.hash_order = <<L(1), L(0)>>
    /\ FieldAt(1).method = HashMapM(Plain, UnwrapOrDefault(Plain))
    /\ ReadAt(1) = Map(L(0) :> Some(L(1)) @@ L(1) :> None)
    /\ infallible_expr(ReadAt(1), FieldAt(1).method) = Map(L(0) :> L(0))
    /\ result[2].fields["items"] = Map(L(0) :> L(0))
====
